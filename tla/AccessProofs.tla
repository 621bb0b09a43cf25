----------------------------- MODULE AccessProofs -----------------------------
(***************************************************************************)
(* What callers see of each other's resources, for any number of owner     *)
(* headers, rows, settings and connectors.                                 *)
(***************************************************************************)
EXTENDS ServerSystem, TLAPS, SequenceTheorems

-----------------------------------------------------------------------------
(***************************************************************************)
(* Resources.  A row remembers whose it is, and what comes of a row        *)
(* belongs to whom the row belongs to.                                     *)
(***************************************************************************)
Shape(r) == r = [kind |-> r.kind, owner |-> r.owner, tenant |-> r.tenant,
                 creator |-> r.creator, state |-> r.state, session |-> r.session,
                 task |-> r.task, work |-> r.work, sources |-> r.sources]

Fine(r) ==
    /\ Shape(r)
    /\ r.kind = "task" => \A s \in r.sources : Bound(s, r.tenant, r.creator, r.owner)

IsSeq(s) == s \in Seq({s[i] : i \in DOMAIN s})

FineRows(rows) == IsSeq(rows) /\ \A i \in DOMAIN rows : Fine(rows[i])

Visible(r, context) ==
    /\ r.tenant = context.tenant
    /\ context.owner # NoOwner => r.owner = context.owner

\* What is answered is for the caller to see.
Told(context) ==
    /\ reply'.principal = context.principal
    /\ reply'.owner = context.owner
    /\ reply'.tenant = context.tenant
    /\ \A r \in reply'.seen : Visible(r, context)
    /\ \A s \in reply'.sources :
           Bound(s, context.tenant, context.principal, context.owner)

LEMMA IndicesOfASeq ==
    ASSUME NEW rows, IsSeq(rows)
    PROVE  Len(rows) \in Nat /\ DOMAIN rows = 1 .. Len(rows)
BY DEF IsSeq

\* A row may be added, or replaced, by a fine one.
LEMMA FineAppend ==
    ASSUME NEW rows, NEW r, FineRows(rows), Fine(r)
    PROVE  FineRows(Append(rows, r))
<1> DEFINE S == {rows[i] : i \in DOMAIN rows} \union {r}
           all == Append(rows, r)
<1>1. rows \in Seq(S) /\ r \in S
    BY SeqMonotonic DEF FineRows, IsSeq
<1>2. /\ all \in Seq(S) /\ Len(all) = Len(rows) + 1 /\ Len(rows) \in Nat
      /\ \A i \in 1 .. Len(rows) : all[i] = rows[i]
      /\ all[Len(rows) + 1] = r
    BY <1>1
<1>3. DOMAIN all = 1 .. Len(rows) + 1 /\ DOMAIN rows = 1 .. Len(rows)
    BY <1>1, <1>2
<1> HIDE DEF all, S
<1>4. IsSeq(all)
  <2>1. all \in [1 .. Len(all) -> S] /\ Len(all) \in Nat /\ DOMAIN all = 1 .. Len(all)
    BY <1>2, LenProperties
  <2>2. all = [i \in DOMAIN all |-> all[i]]
    BY <2>1
  <2>3. all \in [1 .. Len(all) -> {all[i] : i \in DOMAIN all}]
    BY <2>1, <2>2
  <2> QED BY <2>1, <2>3 DEF IsSeq
<1>5. \A i \in DOMAIN all : Fine(all[i])
  <2> SUFFICES ASSUME NEW i \in DOMAIN all PROVE Fine(all[i])
    OBVIOUS
  <2>1. CASE i = Len(rows) + 1
    BY <2>1, <1>2
  <2>2. CASE i # Len(rows) + 1
    <3>1. i \in 1 .. Len(rows)
      BY <2>2, <1>2, <1>3
    <3> QED BY <3>1, <1>2, <1>3 DEF FineRows
  <2> QED BY <2>1, <2>2
<1> QED BY <1>4, <1>5 DEF FineRows, all

LEMMA FineMap ==
    ASSUME NEW rows, FineRows(rows), NEW new, DOMAIN new = DOMAIN rows,
           new = [i \in DOMAIN rows |-> new[i]],
           \A i \in DOMAIN rows : Fine(new[i])
    PROVE  FineRows(new)
<1>1. Len(rows) \in Nat /\ DOMAIN rows = 1 .. Len(rows)
    BY IndicesOfASeq DEF FineRows
<1>2. new \in [1 .. Len(rows) -> {new[i] : i \in DOMAIN new}]
    BY <1>1
<1>3. new \in Seq({new[i] : i \in DOMAIN new})
    BY <1>1, <1>2
<1> QED BY <1>3 DEF FineRows, IsSeq

\* A decline shows nothing.
LEMMA DeclineTells ==
    ASSUME NEW context, NEW error, Decline(context, error)
    PROVE  Told(context) /\ row' = row
BY DEF Decline, AnswerWith, Reply, Told

LEMMA ShowTells ==
    ASSUME NEW context, NEW error, NEW seen, Show(context, error, seen),
           error = "none" => \A r \in seen : Visible(r, context)
    PROVE  Told(context) /\ row' = row
<1>1. CASE error = "none"
  <2>1. Reply(context, 200, seen, {}) /\ row' = row
    BY <1>1 DEF Show, AnswerWith
  <2>2. /\ reply'.principal = context.principal /\ reply'.owner = context.owner
        /\ reply'.tenant = context.tenant
        /\ reply'.seen = seen /\ reply'.sources = {}
    BY <2>1 DEF Reply
  <2> QED BY <1>1, <2>1, <2>2 DEF Told
<1>2. CASE error # "none"
    BY <1>2, DeclineTells DEF Show
<1> QED BY <1>1, <1>2

LEMMA StoreTells ==
    ASSUME NEW context, NEW status, NEW new, NEW others, Store(context, status, new, others),
           FineRows(row), Fine(new), Visible(new, context),
           \A r \in others : Visible(r, context)
    PROVE  Told(context) /\ FineRows(row')
<1>1. Told(context)
    BY DEF Store, AnswerWith, Reply, Told
<1>2. row' = Append(row, new)
    BY DEF Store
<1> QED BY <1>1, <1>2, FineAppend

\* What a caller stores is its own, and what comes of a row is its owner's.
LEMMA OwnedIsVisible ==
    ASSUME NEW context, NEW kind
    PROVE  LET r == Owned(kind, context) IN
           /\ Shape(r) /\ Visible(r, context) /\ r.kind = kind
           /\ r.owner = context.owner /\ r.creator = context.principal
           /\ r.tenant = context.tenant
           /\ kind # "task" => Fine(r)
<1> DEFINE r == Owned(kind, context)
<1>1. r = [kind |-> kind, owner |-> context.owner, tenant |-> context.tenant,
          creator |-> context.principal, state |-> "none", session |-> 0,
          task |-> 0, work |-> "none", sources |-> {}]
  <2> DEFINE a == [NoRow EXCEPT !.kind = kind]
             b == [a EXCEPT !.owner = context.owner]
             c == [b EXCEPT !.tenant = context.tenant]
             d == [c EXCEPT !.creator = context.principal]
  <2>1. a = [kind |-> kind, owner |-> NoOwner, tenant |-> "none",
               creator |-> "none", state |-> "none", session |-> 0,
               task |-> 0, work |-> "none", sources |-> {}]
    BY DEF NoRow
  <2> HIDE DEF a
  <2>2. b = [kind |-> kind, owner |-> context.owner, tenant |-> "none",
               creator |-> "none", state |-> "none", session |-> 0,
               task |-> 0, work |-> "none", sources |-> {}]
    BY <2>1
  <2> HIDE DEF b
  <2>3. c = [kind |-> kind, owner |-> context.owner, tenant |-> context.tenant,
               creator |-> "none", state |-> "none", session |-> 0,
               task |-> 0, work |-> "none", sources |-> {}]
    BY <2>2
  <2> HIDE DEF c
  <2>4. d = [kind |-> kind, owner |-> context.owner, tenant |-> context.tenant,
               creator |-> context.principal, state |-> "none", session |-> 0,
               task |-> 0, work |-> "none", sources |-> {}]
    BY <2>3
  <2> HIDE DEF d
  <2> QED BY <2>4 DEF a, b, c, d, Owned
<1> HIDE DEF r
<1>2. /\ r.kind = kind /\ r.owner = context.owner /\ r.tenant = context.tenant
      /\ r.creator = context.principal
    BY <1>1
<1>3. Shape(r)
    BY <1>1 DEF Shape
<1>4. Visible(r, context)
    BY <1>2 DEF Visible
<1>5. kind # "task" => Fine(r)
    BY <1>2, <1>3 DEF Fine
<1> QED BY <1>2, <1>3, <1>4, <1>5 DEF r

LEMMA InheritedIsVisible ==
    ASSUME NEW context, NEW kind, NEW from, Fine(from), kind # "task"
    PROVE  LET r == Inherited(kind, from) IN
           /\ Fine(r) /\ r.kind = kind
           /\ Visible(from, context) => Visible(r, context)
<1> DEFINE r == Inherited(kind, from)
<1>1. r = [kind |-> kind, owner |-> from.owner, tenant |-> from.tenant,
          creator |-> from.creator, state |-> "none", session |-> 0,
          task |-> 0, work |-> "none", sources |-> {}]
  <2> DEFINE a == [NoRow EXCEPT !.kind = kind]
             b == [a EXCEPT !.owner = from.owner]
             c == [b EXCEPT !.tenant = from.tenant]
             d == [c EXCEPT !.creator = from.creator]
  <2>1. a = [kind |-> kind, owner |-> NoOwner, tenant |-> "none",
               creator |-> "none", state |-> "none", session |-> 0,
               task |-> 0, work |-> "none", sources |-> {}]
    BY DEF NoRow
  <2> HIDE DEF a
  <2>2. b = [kind |-> kind, owner |-> from.owner, tenant |-> "none",
               creator |-> "none", state |-> "none", session |-> 0,
               task |-> 0, work |-> "none", sources |-> {}]
    BY <2>1
  <2> HIDE DEF b
  <2>3. c = [kind |-> kind, owner |-> from.owner, tenant |-> from.tenant,
               creator |-> "none", state |-> "none", session |-> 0,
               task |-> 0, work |-> "none", sources |-> {}]
    BY <2>2
  <2> HIDE DEF c
  <2>4. d = [kind |-> kind, owner |-> from.owner, tenant |-> from.tenant,
               creator |-> from.creator, state |-> "none", session |-> 0,
               task |-> 0, work |-> "none", sources |-> {}]
    BY <2>3
  <2> HIDE DEF d
  <2> QED BY <2>4 DEF a, b, c, d, Inherited
<1> HIDE DEF r
<1>2. /\ r.kind = kind /\ r.owner = from.owner /\ r.tenant = from.tenant
      /\ r.creator = from.creator
    BY <1>1
<1>3. Shape(r)
    BY <1>1 DEF Shape
<1>4. Fine(r)
    BY <1>2, <1>3 DEF Fine
<1>5. Visible(from, context) => Visible(r, context)
    BY <1>2 DEF Visible
<1> QED BY <1>2, <1>4, <1>5 DEF r

\* A row that changes stays whose it is.
Alike(r, new) ==
    /\ Shape(new)
    /\ new.kind = r.kind /\ new.owner = r.owner
    /\ new.tenant = r.tenant /\ new.creator = r.creator

LEMMA AlikeStaysVisible ==
    ASSUME NEW r, NEW new, Alike(r, new), NEW context
    PROVE  /\ Visible(r, context) => Visible(new, context)
           /\ Fine(r) /\ (r.kind = "task" => new.sources = r.sources) => Fine(new)
BY DEF Alike, Visible, Fine

LEMMA SameOwner ==
    ASSUME NEW r, NEW new,
           new = [kind |-> r.kind, owner |-> r.owner, tenant |-> r.tenant,
                  creator |-> r.creator, state |-> new.state,
                  session |-> new.session, task |-> new.task,
                  work |-> new.work, sources |-> new.sources]
    PROVE  Alike(r, new)
<1>1. /\ new.kind = r.kind /\ new.owner = r.owner
      /\ new.tenant = r.tenant /\ new.creator = r.creator
    OBVIOUS
<1> QED BY <1>1 DEF Alike, Shape

LEMMA ChangesAreAlike ==
    ASSUME NEW r, Shape(r), NEW state, NEW chat, NEW task
    PROVE  /\ Alike(r, [r EXCEPT !.state = state])
           /\ [r EXCEPT !.state = state].sources = r.sources
           /\ Alike(r, [r EXCEPT !.session = chat])
           /\ Alike(r, [r EXCEPT !.task = task, !.session = chat])
<1>2. /\ [r EXCEPT !.state = state].sources = r.sources
      /\ Alike(r, [r EXCEPT !.state = state])
  <2> DEFINE new == [r EXCEPT !.state = state]
  <2>1. new = [kind |-> r.kind, owner |-> r.owner, tenant |-> r.tenant,
               creator |-> r.creator, state |-> state, session |-> r.session,
               task |-> r.task, work |-> r.work, sources |-> r.sources]
    BY DEF Shape
  <2> HIDE DEF new
  <2>2. /\ new.state = state /\ new.session = r.session /\ new.task = r.task
        /\ new.work = r.work /\ new.sources = r.sources
    BY <2>1
  <2>3. Alike(r, new)
    BY <2>1, <2>2, SameOwner
  <2> QED BY <2>2, <2>3 DEF new
<1>3. Alike(r, [r EXCEPT !.session = chat])
  <2> DEFINE new == [r EXCEPT !.session = chat]
  <2>1. new = [kind |-> r.kind, owner |-> r.owner, tenant |-> r.tenant,
               creator |-> r.creator, state |-> r.state, session |-> chat,
               task |-> r.task, work |-> r.work, sources |-> r.sources]
    BY DEF Shape
  <2> HIDE DEF new
  <2>2. /\ new.state = r.state /\ new.session = chat /\ new.task = r.task
        /\ new.work = r.work /\ new.sources = r.sources
    BY <2>1
  <2>3. Alike(r, new)
    BY <2>1, <2>2, SameOwner
  <2> QED BY <2>3 DEF new
<1>4. Alike(r, [r EXCEPT !.task = task, !.session = chat])
  <2> DEFINE new == [r EXCEPT !.task = task, !.session = chat]
  <2>1. new = [kind |-> r.kind, owner |-> r.owner, tenant |-> r.tenant,
              creator |-> r.creator, state |-> r.state, session |-> chat,
              task |-> task, work |-> r.work, sources |-> r.sources]
    <3> DEFINE a == [r EXCEPT !.task = task]
               b == [a EXCEPT !.session = chat]
    <3>1. a = [kind |-> r.kind, owner |-> r.owner, tenant |-> r.tenant,
                 creator |-> r.creator, state |-> r.state, session |-> r.session,
                 task |-> task, work |-> r.work, sources |-> r.sources]
      BY DEF Shape
    <3> HIDE DEF a
    <3>2. b = [kind |-> r.kind, owner |-> r.owner, tenant |-> r.tenant,
                 creator |-> r.creator, state |-> r.state, session |-> chat,
                 task |-> task, work |-> r.work, sources |-> r.sources]
      BY <3>1
    <3> HIDE DEF b
    <3> QED BY <3>2 DEF a, b
  <2> HIDE DEF new
  <2>2. /\ new.state = r.state /\ new.session = chat /\ new.task = task
        /\ new.work = r.work /\ new.sources = r.sources
    BY <2>1
  <2>3. Alike(r, new)
    BY <2>1, <2>2, SameOwner
  <2> QED BY <2>3 DEF new
<1> QED BY <1>2, <1>3, <1>4

Filled(r, state, chat, work, sources) ==
    [r EXCEPT !.state = state, !.session = chat, !.work = work,
              !.sources = sources]

LEMMA FilledIsAlike ==
    ASSUME NEW r, Shape(r), NEW state, NEW chat, NEW work, NEW sources
    PROVE  /\ Alike(r, Filled(r, state, chat, work, sources))
           /\ Filled(r, state, chat, work, sources).sources = sources
<1> DEFINE new == Filled(r, state, chat, work, sources)
<1>1. new = [kind |-> r.kind, owner |-> r.owner, tenant |-> r.tenant,
            creator |-> r.creator, state |-> state, session |-> chat,
            task |-> r.task, work |-> work, sources |-> sources]
  <2> DEFINE a == [r EXCEPT !.state = state]
             b == [a EXCEPT !.session = chat]
             c == [b EXCEPT !.work = work]
             d == [c EXCEPT !.sources = sources]
  <2>1. a = [kind |-> r.kind, owner |-> r.owner, tenant |-> r.tenant,
               creator |-> r.creator, state |-> state, session |-> r.session,
               task |-> r.task, work |-> r.work, sources |-> r.sources]
    BY DEF Shape
  <2> HIDE DEF a
  <2>2. b = [kind |-> r.kind, owner |-> r.owner, tenant |-> r.tenant,
               creator |-> r.creator, state |-> state, session |-> chat,
               task |-> r.task, work |-> r.work, sources |-> r.sources]
    BY <2>1
  <2> HIDE DEF b
  <2>3. c = [kind |-> r.kind, owner |-> r.owner, tenant |-> r.tenant,
               creator |-> r.creator, state |-> state, session |-> chat,
               task |-> r.task, work |-> work, sources |-> r.sources]
    BY <2>2
  <2> HIDE DEF c
  <2>4. d = [kind |-> r.kind, owner |-> r.owner, tenant |-> r.tenant,
               creator |-> r.creator, state |-> state, session |-> chat,
               task |-> r.task, work |-> work, sources |-> sources]
    BY <2>3
  <2> HIDE DEF d
  <2> QED BY <2>4 DEF a, b, c, d, Filled
<1> HIDE DEF new
<1>2. /\ new.state = state /\ new.session = chat /\ new.task = r.task
      /\ new.work = work /\ new.sources = sources
  BY <1>1
<1>3. Alike(r, new)
  BY <1>1, <1>2, SameOwner
<1> QED BY <1>2, <1>3 DEF new

\* The decisions of the authorizer: what is granted is visible.
LEMMA GrantedIsVisible ==
    ASSUME NEW context, NEW r, Fine(r), NEW scopes, AuthorizeOwned(context, r, scopes) = "ok"
    PROVE  Visible(r, context)
BY DEF AuthorizeOwned, OwnerVisible, Visible, Fine

LEMMA ConcealedNone ==
    ASSUME NEW decision, Concealed(decision) = "none"
    PROVE  decision = "ok"
BY DEF Concealed

\* A source that is granted is bound to the caller.
LEMMA GrantedIsBound ==
    ASSUME NEW context, NEW s \in SourceIds, AuthorizeSource(context, Catalog[s]) = "ok"
    PROVE  Bound(s, context.tenant, context.principal, context.owner)
<1> SUFFICES ASSUME s \in DOMAIN Connector
             PROVE  /\ Connector[s].tenants \in {{}, Connector[s].tenants \union {context.tenant}}
                    /\ Connector[s].principals \in {{}, Connector[s].principals \union {context.principal}}
                    /\ Connector[s].owners \in {{}, Connector[s].owners \union {context.owner}}
    BY DEF Bound
<1>1. s \notin {"web", "knowledge", "project_memory"}
    BY ConnectorAssumption
<1>2. Catalog[s] = ConnectorSource(Connector[s])
    BY <1>1 DEF Catalog
<1>3. /\ Catalog[s].tenants = Connector[s].tenants
      /\ Catalog[s].principals = Connector[s].principals
      /\ Catalog[s].owners = Connector[s].owners
    BY <1>2 DEF ConnectorSource
<1> QED BY <1>3 DEF AuthorizeSource

LEMMA ResolvedAreBound ==
    ASSUME NEW asked, NEW context, NEW work, NEW project,
           SourcesError(asked, work, project, context) = "none"
    PROVE  \A s \in asked : Bound(s, context.tenant, context.principal, context.owner)
<1> SUFFICES ASSUME NEW s \in asked
             PROVE  Bound(s, context.tenant, context.principal, context.owner)
    OBVIOUS
<1>1. ResolveError(asked, context) = "none"
    BY DEF SourcesError
<1>2. s \in SourceIds /\ Concealed(AuthorizeSource(context, Catalog[s])) \notin {"denied", "not_found"}
    BY <1>1 DEF ResolveError
<1>3. AuthorizeSource(context, Catalog[s]) = "ok"
    BY <1>2 DEF Concealed
<1> QED BY <1>2, <1>3, GrantedIsBound

LEMMA FineUpdate ==
    ASSUME NEW rows, FineRows(rows), NEW i \in DOMAIN rows, NEW r, Fine(r)
    PROVE  FineRows([rows EXCEPT ![i] = r])
<1> DEFINE new == [rows EXCEPT ![i] = r]
<1>1. rows = [j \in DOMAIN rows |-> rows[j]]
    BY IndicesOfASeq DEF FineRows, IsSeq
<1>2. /\ DOMAIN new = DOMAIN rows
      /\ new = [j \in DOMAIN rows |-> new[j]]
      /\ \A j \in DOMAIN rows : new[j] = IF j = i THEN r ELSE rows[j]
    BY <1>1
<1>3. \A j \in DOMAIN rows : Fine(new[j])
    BY <1>2 DEF FineRows
<1> HIDE DEF new
<1>4. FineRows(new)
    BY <1>2, <1>3, FineMap
<1> QED BY <1>4 DEF new

LEMMA NoRowIsFine == Fine(NoRow)
BY DEF Fine, Shape, NoRow

\* What is new is the caller's.
LEMMA NewIsFine ==
    ASSUME NEW context, NEW kind, kind # "task", NEW state
    PROVE  LET new == [Owned(kind, context) EXCEPT !.state = state] IN
           Fine(new) /\ Visible(new, context)
<1> DEFINE own == Owned(kind, context)
           new == [own EXCEPT !.state = state]
<1>1. Shape(own) /\ Visible(own, context) /\ own.kind = kind /\ Fine(own)
    BY OwnedIsVisible
<1> HIDE DEF own
<1>2. Alike(own, new)
    BY <1>1, ChangesAreAlike
<1> HIDE DEF new
<1>3. Fine(new) /\ Visible(new, context)
    BY <1>1, <1>2, AlikeStaysVisible
<1> QED BY <1>3 DEF new, own

LEMMA NewTaskIsFine ==
    ASSUME NEW context, NEW chat, NEW work, NEW sources,
           \A s \in sources : Bound(s, context.tenant, context.principal, context.owner)
    PROVE  LET new == NewTask(context, chat, work, sources) IN
           Fine(new) /\ Visible(new, context)
<1> DEFINE own == Owned("task", context)
           new == Filled(own, "queued", chat, work, sources)
<1>1. /\ Shape(own) /\ Visible(own, context) /\ own.kind = "task"
      /\ own.owner = context.owner /\ own.creator = context.principal
      /\ own.tenant = context.tenant
    BY OwnedIsVisible
<1>2. new = NewTask(context, chat, work, sources)
    BY DEF Filled, NewTask
<1> HIDE DEF own
<1>3. Alike(own, new) /\ new.sources = sources
    BY <1>1, FilledIsAlike
<1> HIDE DEF new
<1>4. Visible(new, context)
    BY <1>1, <1>3, AlikeStaysVisible
<1>5. /\ Shape(new) /\ new.owner = context.owner /\ new.creator = context.principal
      /\ new.tenant = context.tenant
    BY <1>1, <1>3 DEF Alike
<1>6. \A s \in new.sources : Bound(s, new.tenant, new.creator, new.owner)
    BY <1>3, <1>5
<1>7. Fine(new)
    BY <1>5, <1>6 DEF Fine
<1> QED BY <1>2, <1>4, <1>7

\* What a handler leaves, and answers, is as it should be.
Keeps(context) == Told(context) /\ FineRows(row')

LEMMA DeclineKeeps ==
    ASSUME NEW context, NEW error, FineRows(row), Decline(context, error)
    PROVE  Keeps(context)
BY DeclineTells DEF Keeps

LEMMA ShowKeeps ==
    ASSUME NEW context, NEW error, NEW seen, FineRows(row), Show(context, error, seen),
           error = "none" => \A r \in seen : Visible(r, context)
    PROVE  Keeps(context)
BY ShowTells DEF Keeps

\* One row changes, and it is shown with others.
LEMMA ChangeKeeps ==
    ASSUME NEW context, NEW id \in DOMAIN row, FineRows(row), NEW new, NEW status,
           NEW others, Fine(new), Visible(new, context),
           \A r \in others : Visible(r, context),
           row' = [row EXCEPT ![id] = new],
           AnswerWith(context, status, {new} \union others)
    PROVE  Keeps(context)
<1>1. Told(context)
    BY DEF AnswerWith, Reply, Told
<1> QED BY <1>1, FineUpdate DEF Keeps

LEMMA CancelledIsFine ==
    ASSUME NEW context, NEW id \in DOMAIN row, FineRows(row), Visible(row[id], context),
           NEW state
    PROVE  LET new == [row[id] EXCEPT !.state = state] IN
           Fine(new) /\ Visible(new, context)
<1> DEFINE r == row[id]
           new == [r EXCEPT !.state = state]
<1>1. Fine(r) /\ Shape(r) /\ Visible(r, context)
    BY DEF FineRows, Fine
<1> HIDE DEF r
<1>2. Alike(r, new) /\ new.sources = r.sources
    BY <1>1, ChangesAreAlike
<1> HIDE DEF new
<1>3. Fine(new) /\ Visible(new, context)
    BY <1>1, <1>2, AlikeStaysVisible
<1> QED BY <1>3 DEF new, r

-----------------------------------------------------------------------------
(***************************************************************************)
(* Handler by handler.                                                     *)
(***************************************************************************)
LEMMA LoadedExecution ==
    ASSUME NEW id, NEW context, FineRows(row), LoadExecution(id, context) = "none"
    PROVE  id \in DOMAIN row /\ row[id].kind = "execution" /\ Visible(row[id], context)
<1>1. Is("execution", id) /\ AuthorizeExecutionRead(context, row[id]) = "ok"
    BY DEF LoadExecution
<1>2. id \in DOMAIN row /\ row[id].kind = "execution"
    BY <1>1 DEF Is
<1>3. Fine(row[id])
    BY <1>2 DEF FineRows
<1> QED BY <1>1, <1>2, <1>3, GrantedIsVisible DEF AuthorizeExecutionRead

LEMMA ConcealedLoad ==
    ASSUME NEW context, NEW r, Fine(r), NEW scopes,
           Concealed(AuthorizeOwned(context, r, scopes)) = "none"
    PROVE  Visible(r, context)
BY ConcealedNone, GrantedIsVisible

LEMMA LoadedTask ==
    ASSUME NEW id, NEW context, NEW mode, FineRows(row),
           LoadTask(id, context, mode) = "none"
    PROVE  id \in DOMAIN row /\ row[id].kind = "task" /\ Visible(row[id], context)
<1>1. /\ Is("task", id)
      /\ Concealed(IF mode = "write" THEN AuthorizeTaskWrite(context, row[id])
                   ELSE AuthorizeTaskRead(context, row[id])) = "none"
    BY DEF LoadTask, WorkbenchGate
<1>2. id \in DOMAIN row /\ row[id].kind = "task"
    BY <1>1 DEF Is
<1>3. Fine(row[id])
    BY <1>2 DEF FineRows
<1>4. \E scopes : Concealed(AuthorizeOwned(context, row[id], scopes)) = "none"
    BY <1>1 DEF AuthorizeTaskWrite, AuthorizeTaskRead
<1> QED BY <1>2, <1>3, <1>4, ConcealedLoad

LEMMA LoadedOutput ==
    ASSUME NEW id, NEW context, NEW mode, FineRows(row),
           LoadOutput(id, context, mode) = "none"
    PROVE  id \in DOMAIN row /\ row[id].kind = "output" /\ Visible(row[id], context)
<1>1. /\ Is("output", id)
      /\ Concealed(IF mode = "export" THEN AuthorizeOutputExport(context, row[id])
                   ELSE AuthorizeOutputRead(context, row[id])) = "none"
    BY DEF LoadOutput, WorkbenchGate
<1>2. id \in DOMAIN row /\ row[id].kind = "output"
    BY <1>1 DEF Is
<1>3. Fine(row[id])
    BY <1>2 DEF FineRows
<1>4. \E scopes : Concealed(AuthorizeOwned(context, row[id], scopes)) = "none"
    BY <1>1 DEF AuthorizeOutputExport, AuthorizeOutputRead
<1> QED BY <1>2, <1>3, <1>4, ConcealedLoad

LEMMA LoadedSession ==
    ASSUME NEW id, NEW context, NEW mode, FineRows(row),
           LoadSession(id, context, mode) = "none"
    PROVE  id \in DOMAIN row /\ row[id].kind = "session" /\ Visible(row[id], context)
<1>1. /\ Is("session", id)
      /\ (IF mode = "write" THEN AuthorizeSessionWrite(context, row[id])
          ELSE AuthorizeSessionRead(context, row[id])) = "ok"
    BY DEF LoadSession
<1>2. id \in DOMAIN row /\ row[id].kind = "session"
    BY <1>1 DEF Is
<1>3. Fine(row[id])
    BY <1>2 DEF FineRows
<1>4. \E scopes : AuthorizeOwned(context, row[id], scopes) = "ok"
    BY <1>1 DEF AuthorizeSessionWrite, AuthorizeSessionRead
<1> QED BY <1>2, <1>3, <1>4, GrantedIsVisible

LEMMA RowsOfAKind ==
    ASSUME FineRows(row), NEW kind
    PROVE  \A r \in Rows(kind) : Fine(r) /\ r.kind = kind
BY DEF FineRows, Rows

LEMMA OutputsShown ==
    ASSUME NEW context, FineRows(row), NEW outputs, outputs \subseteq Rows("output")
    PROVE  \A o \in VisibleOutputs(outputs, context) : Visible(o, context)
<1> SUFFICES ASSUME NEW o \in VisibleOutputs(outputs, context)
             PROVE  Visible(o, context)
    OBVIOUS
<1>1. o \in Rows("output") /\ AuthorizeOutputRead(context, o) = "ok"
    BY DEF VisibleOutputs
<1>2. Fine(o)
    BY <1>1, RowsOfAKind
<1> QED BY <1>1, <1>2, GrantedIsVisible DEF AuthorizeOutputRead

LEMMA ExecutionsKeep ==
    ASSUME NEW context, FineRows(row), NEW id,
           \/ PostExecution(context)
           \/ GetExecution(id, context)
           \/ CancelExecution(id, context)
           \/ RetryExecution(id, context)
    PROVE  Keeps(context)
<1>1. CASE PostExecution(context)
  <2>1. CASE \E error : Decline(context, error)
    BY <2>1, DeclineKeeps
  <2>2. CASE \E mode \in {<<"queued", 202>>, <<"completed", 200>>} :
                Store(context, mode[2],
                      [Owned("execution", context) EXCEPT !.state = mode[1]], {})
    <3> PICK mode \in {<<"queued", 202>>, <<"completed", 200>>} :
                Store(context, mode[2],
                      [Owned("execution", context) EXCEPT !.state = mode[1]], {})
      BY <2>2
    <3> DEFINE new == [Owned("execution", context) EXCEPT !.state = mode[1]]
    <3>1. Fine(new) /\ Visible(new, context)
      BY NewIsFine
    <3>2. Store(context, mode[2], new, {})
      OBVIOUS
    <3> HIDE DEF new
    <3> QED BY <3>1, <3>2, StoreTells DEF Keeps
  <2> QED BY <1>1, <2>1, <2>2 DEF PostExecution
<1>2. CASE GetExecution(id, context)
  <2> DEFINE error == LoadExecution(id, context)
             seen == IF error = "none" THEN {row[id]} ELSE {}
  <2>1. error = "none" => \A r \in seen : Visible(r, context)
    BY LoadedExecution
  <2>2. Show(context, error, seen)
    BY <1>2 DEF GetExecution
  <2> HIDE DEF error, seen
  <2> QED BY <2>1, <2>2, ShowKeeps
<1>3. CASE CancelExecution(id, context)
  <2>1. CASE \E error : Decline(context, error)
    BY <2>1, DeclineKeeps
  <2> DEFINE new == [row[id] EXCEPT !.state = "cancelled"]
  <2>2. CASE /\ LoadExecution(id, context) = "none"
             /\ row' = [row EXCEPT ![id] = new]
             /\ AnswerWith(context, 200, {new})
    <3>1. id \in DOMAIN row /\ Visible(row[id], context)
      BY <2>2, LoadedExecution
    <3>2. Fine(new) /\ Visible(new, context)
      BY <3>1, CancelledIsFine
    <3>3. row' = [row EXCEPT ![id] = new] /\ AnswerWith(context, 200, {new} \union {})
      BY <2>2
    <3> HIDE DEF new
    <3> QED BY <3>1, <3>2, <3>3, ChangeKeeps
  <2> QED BY <1>3, <2>1, <2>2 DEF CancelExecution
<1>4. CASE RetryExecution(id, context)
  <2>1. CASE \E error : Decline(context, error)
    BY <2>1, DeclineKeeps
  <2> DEFINE from == Inherited("execution", row[id])
             new == [from EXCEPT !.state = "queued"]
  <2>2. CASE /\ LoadExecution(id, context) = "none"
             /\ Store(context, 202, new, {row[id]})
    <3>1. id \in DOMAIN row /\ Visible(row[id], context)
      BY <2>2, LoadedExecution
    <3>2. Fine(row[id])
      BY <3>1 DEF FineRows
    <3>3. Fine(from) /\ Visible(from, context) /\ from.kind = "execution"
      BY <3>1, <3>2, InheritedIsVisible
    <3> HIDE DEF from
    <3>4. Alike(from, new) /\ new.sources = from.sources
      BY <3>3, ChangesAreAlike DEF Fine
    <3> HIDE DEF new
    <3>5. Fine(new) /\ Visible(new, context)
      BY <3>3, <3>4, AlikeStaysVisible
    <3>6. Store(context, 202, new, {row[id]})
      BY <2>2
    <3>7. \A r \in {row[id]} : Visible(r, context)
      BY <3>1
    <3> QED BY <3>5, <3>6, <3>7, StoreTells DEF Keeps
  <2> QED BY <1>4, <2>1, <2>2 DEF RetryExecution
<1> QED BY <1>1, <1>2, <1>3, <1>4

LEMMA CreatedTaskIsBound ==
    ASSUME NEW context, NEW body, CreateError(body, context) = "none"
    PROVE  \A s \in Requested(body) :
               Bound(s, context.tenant, context.principal, context.owner)
<1>1. SourcesError(Requested(body), body.work, body.project, context) = "none"
    BY DEF CreateError, WorkbenchGate
<1> QED BY <1>1, ResolvedAreBound

LEMMA TasksKeep ==
    ASSUME NEW context, FineRows(row), NEW id, NEW body,
           \/ GetSources(context)
           \/ PostTask(id, body, context)
           \/ GetTask(id, context)
           \/ GetTaskEvents(id, context)
           \/ CancelTask(id, context)
           \/ RetryTask(id, context)
    PROVE  Keeps(context)
<1>0. CASE \E error : Decline(context, error)
  BY <1>0, DeclineKeeps
<1>1. CASE GetSources(context)
  <2>1. CASE Reply(context, 200, {}, VisibleSources(context)) /\ UNCHANGED row
    <3>1. \A s \in VisibleSources(context) :
              Bound(s, context.tenant, context.principal, context.owner)
      BY GrantedIsBound DEF VisibleSources
    <3>2. Told(context)
      BY <2>1, <3>1 DEF Reply, Told
    <3>3. row' = row
      BY <2>1
    <3> QED BY <3>2, <3>3 DEF Keeps
  <2> QED BY <1>0, <1>1, <2>1 DEF GetSources
<1>2. CASE PostTask(id, body, context)
  <2> DEFINE new == NewTask(context, id, body.work, Requested(body))
  <2>1. CASE CreateError(body, context) = "none" /\ Store(context, 202, new, {})
    <3>1. Fine(new) /\ Visible(new, context)
      BY <2>1, CreatedTaskIsBound, NewTaskIsFine
    <3>2. Store(context, 202, new, {})
      BY <2>1
    <3> HIDE DEF new
    <3> QED BY <3>1, <3>2, StoreTells DEF Keeps
  <2> QED BY <1>0, <1>2, <2>1 DEF PostTask
<1>3. CASE GetTask(id, context)
  <2> DEFINE error == LoadTask(id, context, "read")
             outputs == VisibleOutputs(OutputsOfTask(id), context)
             seen == IF error # "none" THEN {} ELSE {row[id]} \union outputs
  <2>1. \A o \in outputs : Visible(o, context)
    BY OutputsShown DEF OutputsOfTask
  <2>2. error = "none" => Visible(row[id], context)
    BY LoadedTask
  <2>3. Show(context, error, seen)
    BY <1>3 DEF GetTask
  <2> HIDE DEF outputs, error
  <2>4. error = "none" => \A r \in seen : Visible(r, context)
    BY <2>1, <2>2
  <2> HIDE DEF seen
  <2> QED BY <2>3, <2>4, ShowKeeps
<1>4. CASE GetTaskEvents(id, context)
  <2> DEFINE error == LoadTask(id, context, "read")
             seen == IF error # "none" THEN {} ELSE {row[id]}
  <2>1. error = "none" => \A r \in seen : Visible(r, context)
    BY LoadedTask
  <2>2. Show(context, error, seen)
    BY <1>4 DEF GetTaskEvents
  <2> HIDE DEF error, seen
  <2> QED BY <2>1, <2>2, ShowKeeps
<1>5. CASE CancelTask(id, context)
  <2> DEFINE new == [row[id] EXCEPT !.state = "cancelled"]
             outputs == VisibleOutputs(OutputsOfTask(id), context)
  <2>1. CASE /\ LoadTask(id, context, "write") = "none"
             /\ row' = [row EXCEPT ![id] = new]
             /\ AnswerWith(context, 200, {new} \union outputs)
    <3>1. id \in DOMAIN row /\ Visible(row[id], context)
      BY <2>1, LoadedTask
    <3>2. Fine(new) /\ Visible(new, context)
      BY <3>1, CancelledIsFine
    <3>3. \A o \in outputs : Visible(o, context)
      BY OutputsShown DEF OutputsOfTask
    <3>4. row' = [row EXCEPT ![id] = new] /\ AnswerWith(context, 200, {new} \union outputs)
      BY <2>1
    <3> HIDE DEF new, outputs
    <3> QED BY <3>1, <3>2, <3>3, <3>4, ChangeKeeps
  <2> QED BY <1>0, <1>5, <2>1 DEF CancelTask
<1>6. CASE RetryTask(id, context)
  <2> DEFINE new == NewTask(context, row[id].session, row[id].work, row[id].sources)
  <2>1. CASE /\ LoadTask(id, context, "write") = "none"
             /\ SourcesError(row[id].sources, row[id].work,
                             "project_memory" \in row[id].sources, context) = "none"
             /\ Store(context, 202, new, {row[id]})
    <3>1. Visible(row[id], context)
      BY <2>1, LoadedTask
    <3>2. \A s \in row[id].sources :
              Bound(s, context.tenant, context.principal, context.owner)
      BY <2>1, ResolvedAreBound
    <3>3. Fine(new) /\ Visible(new, context)
      BY <3>2, NewTaskIsFine
    <3>4. Store(context, 202, new, {row[id]})
      BY <2>1
    <3>5. \A r \in {row[id]} : Visible(r, context)
      BY <3>1
    <3> HIDE DEF new
    <3> QED BY <3>3, <3>4, <3>5, StoreTells DEF Keeps
  <2> QED BY <1>0, <1>6, <2>1 DEF RetryTask
<1> QED BY <1>1, <1>2, <1>3, <1>4, <1>5, <1>6

LEMMA OutputsKeep ==
    ASSUME NEW context, FineRows(row), NEW id,
           \/ GetOutput(id, context)
           \/ ListOutputs(id, context)
           \/ ExportOutput(id, context)
           \/ GetArtifact(id, context)
    PROVE  Keeps(context)
<1>0. CASE \E error : Decline(context, error)
  BY <1>0, DeclineKeeps
<1>1. CASE GetOutput(id, context)
  <2> DEFINE error == LoadOutput(id, context, "read")
             seen == IF error # "none" THEN {} ELSE {row[id]}
  <2>1. error = "none" => \A r \in seen : Visible(r, context)
    BY LoadedOutput
  <2>2. Show(context, error, seen)
    BY <1>1 DEF GetOutput
  <2> HIDE DEF error, seen
  <2> QED BY <2>1, <2>2, ShowKeeps
<1>2. CASE ListOutputs(id, context)
  <2> DEFINE error == IF WorkbenchGate # "none" THEN WorkbenchGate
                      ELSE IF "workbench:read" \notin context.scopes THEN "denied"
                      ELSE IF id = 0 THEN "invalid" ELSE "none"
             outputs == VisibleOutputs(OutputsOfSession(id), context)
             seen == IF error # "none" THEN {} ELSE outputs
  <2>1. \A o \in outputs : Visible(o, context)
    BY OutputsShown DEF OutputsOfSession
  <2>2. Show(context, error, seen)
    BY <1>2 DEF ListOutputs
  <2> HIDE DEF error, outputs
  <2>3. error = "none" => \A r \in seen : Visible(r, context)
    BY <2>1
  <2> HIDE DEF seen
  <2> QED BY <2>2, <2>3, ShowKeeps
<1>3. CASE ExportOutput(id, context)
  <2> DEFINE from == Inherited("artifact", row[id])
             new == [from EXCEPT !.session = row[id].session]
  <2>1. CASE /\ LoadOutput(id, context, "export") = "none"
             /\ Store(context, 201, new, {row[id]})
    <3>1. id \in DOMAIN row /\ Visible(row[id], context)
      BY <2>1, LoadedOutput
    <3>2. Fine(row[id])
      BY <3>1 DEF FineRows
    <3>3. Fine(from) /\ Visible(from, context) /\ from.kind = "artifact"
      BY <3>1, <3>2, InheritedIsVisible
    <3> HIDE DEF from
    <3>4. Alike(from, new)
      BY <3>3, ChangesAreAlike DEF Fine
    <3> HIDE DEF new
    <3>5. Fine(new) /\ Visible(new, context)
      BY <3>3, <3>4, AlikeStaysVisible
    <3>6. Store(context, 201, new, {row[id]})
      BY <2>1
    <3>7. \A r \in {row[id]} : Visible(r, context)
      BY <3>1
    <3> QED BY <3>5, <3>6, <3>7, StoreTells DEF Keeps
  <2> QED BY <1>0, <1>3, <2>1 DEF ExportOutput
<1>4. CASE GetArtifact(id, context)
  <2>1. CASE /\ LoadArtifact(id, context)
             /\ AuthorizeArtifactRead(context, row[id]) = "ok"
             /\ Show(context, "none", {row[id]})
    <3>1. id \in DOMAIN row
      BY <2>1 DEF LoadArtifact, Is
    <3>2. Fine(row[id])
      BY <3>1 DEF FineRows
    <3>3. Visible(row[id], context)
      BY <2>1, <3>2, GrantedIsVisible DEF AuthorizeArtifactRead
    <3>4. \A r \in {row[id]} : Visible(r, context)
      BY <3>3
    <3> QED BY <2>1, <3>4, ShowKeeps
  <2> QED BY <1>0, <1>4, <2>1 DEF GetArtifact
<1> QED BY <1>1, <1>2, <1>3, <1>4

LEMMA DeletedIsFine ==
    ASSUME FineRows(row), NEW gone
    PROVE  FineRows([i \in DOMAIN row |-> IF i \in gone THEN NoRow ELSE row[i]])
<1> DEFINE new == [i \in DOMAIN row |-> IF i \in gone THEN NoRow ELSE row[i]]
<1>1. DOMAIN new = DOMAIN row /\ new = [i \in DOMAIN row |-> new[i]]
    OBVIOUS
<1>2. \A i \in DOMAIN row : Fine(new[i])
    BY NoRowIsFine DEF FineRows
<1> HIDE DEF new
<1>3. FineRows(new)
    BY <1>1, <1>2, FineMap
<1> QED BY <1>3 DEF new

LEMMA SessionsKeep ==
    ASSUME NEW context, FineRows(row), NEW id,
           \/ PostChat(context)
           \/ ListHistory(context)
           \/ DeleteHistory(context)
           \/ GetSession(id, context)
           \/ RenameSession(id, context)
           \/ DeleteSession(id, context)
    PROVE  Keeps(context)
<1>0. CASE \E error : Decline(context, error)
  BY <1>0, DeclineKeeps
<1>1. CASE PostChat(context)
  <2> DEFINE new == Owned("session", context)
  <2>1. Fine(new) /\ Visible(new, context)
    BY OwnedIsVisible
  <2>2. Store(context, 200, new, {})
    BY <1>1 DEF PostChat
  <2> HIDE DEF new
  <2> QED BY <2>1, <2>2, StoreTells DEF Keeps
<1>2. CASE ListHistory(context)
  <2> DEFINE seen == {s \in Rows("session") :
                         /\ Filtered(s, context)
                         /\ AuthorizeSessionRead(context, s) = "ok"}
  <2>1. \A s \in seen : Visible(s, context)
    BY RowsOfAKind, GrantedIsVisible DEF AuthorizeSessionRead
  <2>2. Show(context, "none", seen)
    BY <1>2 DEF ListHistory
  <2> HIDE DEF seen
  <2> QED BY <2>1, <2>2, ShowKeeps
<1>3. CASE DeleteHistory(context)
  <2> DEFINE Gone(i) == /\ row[i].kind \in {"session", "artifact"}
                        /\ Filtered(row[i], context)
             seen == {row[i] : i \in {j \in DOMAIN row : Gone(j)}}
             gone == {j \in DOMAIN row : Gone(j)}
  <2>1. row' = Deleted(Gone) /\ AnswerWith(context, 204, seen)
    BY <1>3 DEF DeleteHistory
  <2>2. \A r \in seen : Visible(r, context)
    BY DEF Filtered, Visible
  <2>3. AnswerWith(context, 204, seen)
    BY <2>1
  <2>4. row' = [i \in DOMAIN row |-> IF i \in gone THEN NoRow ELSE row[i]]
    BY <2>1 DEF Deleted
  <2> HIDE DEF seen, gone
  <2>5. Told(context)
    BY <2>2, <2>3 DEF AnswerWith, Reply, Told
  <2>6. FineRows(row')
    BY <2>4, DeletedIsFine
  <2> QED BY <2>5, <2>6 DEF Keeps
<1>4. CASE GetSession(id, context)
  <2> DEFINE error == LoadSession(id, context, "read")
             outputs == VisibleOutputs(OutputsOfSession(id), context)
             seen == IF error # "none" THEN {} ELSE {row[id]} \union outputs
  <2>1. \A o \in outputs : Visible(o, context)
    BY OutputsShown DEF OutputsOfSession
  <2>2. error = "none" => Visible(row[id], context)
    BY LoadedSession
  <2>3. Show(context, error, seen)
    BY <1>4 DEF GetSession
  <2> HIDE DEF outputs, error
  <2>4. error = "none" => \A r \in seen : Visible(r, context)
    BY <2>1, <2>2
  <2> HIDE DEF seen
  <2> QED BY <2>3, <2>4, ShowKeeps
<1>5. CASE RenameSession(id, context)
  <2>1. CASE /\ LoadSession(id, context, "write") = "none"
             /\ AnswerWith(context, 204, {row[id]})
             /\ UNCHANGED row
    <3>1. Visible(row[id], context)
      BY <2>1, LoadedSession
    <3>2. Told(context)
      BY <2>1, <3>1 DEF AnswerWith, Reply, Told
    <3> QED BY <2>1, <3>2 DEF Keeps
  <2> QED BY <1>0, <1>5, <2>1 DEF RenameSession
<1>6. CASE DeleteSession(id, context)
  <2> DEFINE Gone(i) == i = id \/ (row[i].kind = "artifact" /\ row[i].session = id)
             gone == {j \in DOMAIN row : Gone(j)}
  <2>1. CASE /\ LoadSession(id, context, "read") = "none"
             /\ row' = Deleted(Gone)
             /\ AnswerWith(context, 204, {row[id]})
    <3>1. Visible(row[id], context)
      BY <2>1, LoadedSession
    <3>2. Told(context)
      BY <2>1, <3>1 DEF AnswerWith, Reply, Told
    <3>3. row' = [i \in DOMAIN row |-> IF i \in gone THEN NoRow ELSE row[i]]
      BY <2>1 DEF Deleted
    <3> HIDE DEF gone
    <3>4. FineRows(row')
      BY <3>3, DeletedIsFine
    <3> QED BY <3>2, <3>4 DEF Keeps
  <2> QED BY <1>0, <1>6, <2>1 DEF DeleteSession
<1> QED BY <1>1, <1>2, <1>3, <1>4, <1>5, <1>6

LEMMA HandlersKeep ==
    ASSUME NEW context, FineRows(row), NEW request,
           Handle(request, context)
    PROVE  Keeps(context)
<1> DEFINE id == request.id
<1>1. CASE \/ PostExecution(context)
           \/ GetExecution(id, context)
           \/ CancelExecution(id, context)
           \/ RetryExecution(id, context)
  BY <1>1, ExecutionsKeep
<1>2. CASE \/ GetSources(context)
           \/ PostTask(id, request.body, context)
           \/ GetTask(id, context)
           \/ GetTaskEvents(id, context)
           \/ CancelTask(id, context)
           \/ RetryTask(id, context)
  BY <1>2, TasksKeep
<1>3. CASE \/ GetOutput(id, context)
           \/ ListOutputs(id, context)
           \/ ExportOutput(id, context)
           \/ GetArtifact(id, context)
  BY <1>3, OutputsKeep
<1>4. CASE \/ PostChat(context)
           \/ ListHistory(context)
           \/ DeleteHistory(context)
           \/ GetSession(id, context)
           \/ RenameSession(id, context)
           \/ DeleteSession(id, context)
  BY <1>4, SessionsKeep
<1> QED BY <1>1, <1>2, <1>3, <1>4 DEF Handle

-----------------------------------------------------------------------------
(***************************************************************************)
(* What is shown, changed or used is one's own.                            *)
(***************************************************************************)
OwnInv == FineRows(row) /\ ReadersOwn

\* A reply that shows nothing.
Bare(r) == r.seen = {} /\ r.sources = {}

LEMMA FineRowsAreBound ==
    ASSUME FineRows(row)
    PROVE  \A task \in Rows("task") : \A s \in task.sources :
               Bound(s, task.tenant, task.creator, task.owner)
BY RowsOfAKind DEF Fine

LEMMA KeptIsOwn ==
    ASSUME NEW context, Keeps(context)
    PROVE  OwnInv'
<1>1. FineRows(row')
    BY DEF Keeps
<1>2. SeenIsOwn'
  <2> SUFFICES ASSUME NEW r \in reply'.seen
               PROVE  /\ r.tenant = reply'.tenant
                      /\ reply'.owner # NoOwner => r.owner = reply'.owner
    BY DEF SeenIsOwn
  <2> QED BY DEF Keeps, Told, Visible
<1>3. \A task \in Rows("task")' : \A s \in task.sources :
          Bound(s, task.tenant, task.creator, task.owner)
    BY <1>1 DEF FineRows, Rows, Fine
<1>4. \A s \in reply'.sources :
          Bound(s, reply'.tenant, reply'.principal, reply'.owner)
    BY DEF Keeps, Told
<1>5. SourcesAreAllowed'
    BY <1>3, <1>4 DEF SourcesAreAllowed, Bound
<1> QED BY <1>1, <1>2, <1>5 DEF OwnInv, ReadersOwn

LEMMA BareIsOwn ==
    ASSUME FineRows(row'), Bare(reply') \/ (ReadersOwn /\ UNCHANGED reply)
    PROVE  OwnInv'
<1>1. \A task \in Rows("task")' : \A s \in task.sources :
          Bound(s, task.tenant, task.creator, task.owner)
    BY DEF FineRows, Rows, Fine
<1>2. SeenIsOwn'
  <2>1. CASE Bare(reply')
    BY <2>1 DEF Bare, SeenIsOwn
  <2>2. CASE ReadersOwn /\ UNCHANGED reply
    BY <2>2 DEF ReadersOwn, SeenIsOwn
  <2> QED BY <2>1, <2>2
<1>3. \A s \in reply'.sources :
          Bound(s, reply'.tenant, reply'.principal, reply'.owner)
  <2>1. CASE Bare(reply')
    BY <2>1 DEF Bare
  <2>2. CASE ReadersOwn /\ UNCHANGED reply
    BY <2>2 DEF ReadersOwn, SourcesAreAllowed
  <2> QED BY <2>1, <2>2
<1>4. SourcesAreAllowed'
    BY <1>1, <1>3 DEF SourcesAreAllowed, Bound
<1> QED BY <1>2, <1>4 DEF OwnInv, ReadersOwn

\* The runner completes a row, and a canvas task leaves its owner an output.
LEMMA RunIsFine ==
    ASSUME FineRows(row), NEW id, RunToEnd(id)
    PROVE  FineRows(row')
<1> DEFINE new == [row[id] EXCEPT !.state = "completed"]
           done == [row EXCEPT ![id] = new]
           from == Inherited("output", row[id])
           output == [from EXCEPT !.task = id, !.session = row[id].session]
<1>1. id \in DOMAIN row
    BY DEF RunToEnd
<1>2. Fine(row[id])
    BY <1>1 DEF FineRows
<1>3. Fine(new)
  <2> DEFINE r == row[id]
  <2>1. Fine(r) /\ Shape(r)
    BY <1>2 DEF Fine
  <2> HIDE DEF r
  <2>2. Alike(r, [r EXCEPT !.state = "completed"])
        /\ [r EXCEPT !.state = "completed"].sources = r.sources
    BY <2>1, ChangesAreAlike
  <2>3. Fine([r EXCEPT !.state = "completed"])
    BY <2>1, <2>2, AlikeStaysVisible
  <2> QED BY <2>3 DEF r
<1>4. FineRows(done)
  <2> HIDE DEF new
  <2> QED BY <1>1, <1>3, FineUpdate
<1>5. Fine(output)
  <2>1. Fine(from) /\ from.kind = "output"
    BY <1>2, InheritedIsVisible
  <2> HIDE DEF from
  <2>2. Alike(from, output)
    BY <2>1, ChangesAreAlike DEF Fine
  <2> HIDE DEF output
  <2> QED BY <2>1, <2>2, AlikeStaysVisible
<1>6. row' = done \/ row' = Append(done, output)
    BY <1>1 DEF RunToEnd
<1> HIDE DEF done, output
<1> QED BY <1>4, <1>5, <1>6, FineAppend

LEMMA OwnStep == OwnInv /\ [AccessNext]_accessVars => OwnInv'
<1> SUFFICES ASSUME OwnInv, [AccessNext]_accessVars PROVE OwnInv'
    OBVIOUS
<1>1. FineRows(row) /\ ReadersOwn
    BY DEF OwnInv
<1>2. ASSUME NEW header \in Header, NEW request \in Asks, Serve(header, request)
      PROVE  OwnInv'
  <2>1. Handle(request, LocalContext(header))
    BY <1>2 DEF Serve
  <2>2. Keeps(LocalContext(header))
    BY <1>1, <2>1, HandlersKeep
  <2> QED BY <2>2, KeptIsOwn
<1>3. ASSUME NEW id \in DOMAIN row, Run(id) PROVE OwnInv'
  <2>1. RunToEnd(id) /\ UNCHANGED reply
    BY <1>3 DEF Run, RunToEnd
  <2> QED BY <1>1, <2>1, RunIsFine, BareIsOwn
<1>4. CASE Restart
  <2>1. row' = row /\ Bare(reply')
    BY <1>4 DEF Restart, Bare, NoReply
  <2> QED BY <1>1, <2>1, BareIsOwn
<1>5. CASE UNCHANGED accessVars
  <2>1. row' = row /\ UNCHANGED reply
    BY <1>5 DEF accessVars
  <2> QED BY <1>1, <2>1, BareIsOwn
<1> QED BY <1>2, <1>3, <1>4, <1>5 DEF AccessNext

LEMMA OwnInit == AccessInit => OwnInv
<1> SUFFICES ASSUME AccessInit PROVE OwnInv
  OBVIOUS
<1>1. Bare(reply) /\ row \in Histories
  BY DEF AccessInit, Bare, NoReply
<1>2. FineRows(row)
  BY <1>1, HistoryAssumption DEF FineRows, IsSeq, Fine, Shape, IsRow
<1>3. ReadersOwn
  BY <1>1, <1>2, FineRowsAreBound DEF ReadersOwn, SeenIsOwn, SourcesAreAllowed, Bare
<1> QED BY <1>2, <1>3 DEF OwnInv

(***************************************************************************)
(* EverybodySeesTheirOwn.  Whatever is answered shows, and whatever is     *)
(* done changes, only what the caller may have: SeenIsOwn, and             *)
(* SourcesAreAllowed, of any number of rows, of earlier releases too,      *)
(* headers, settings and connectors.                                       *)
(***************************************************************************)
THEOREM EverybodySeesTheirOwn == ServerSpec => []ReadersOwn
<1>1. ServerInit => OwnInv
  BY OwnInit DEF ServerInit
<1>2. OwnInv /\ [ServerNext]_serverVars => OwnInv'
  <2> SUFFICES ASSUME OwnInv, [ServerNext]_serverVars PROVE OwnInv'
    OBVIOUS
  <2>1. [AccessNext]_accessVars
    BY DEF ServerNext, InChat, InAccess, serverVars, accessVars
  <2> QED BY <2>1, OwnStep
<1>3. OwnInv => ReadersOwn
  BY DEF OwnInv
<1> QED BY <1>1, <1>2, <1>3, PTL DEF ServerSpec

(***************************************************************************)
(* TurnsAreFollowed.  A behaviour of ServerSystem is one of the chat turns *)
(* alone, so that all that is proved of those holds in it.                 *)
(***************************************************************************)
THEOREM TurnsAreFollowed == ServerSpec => Spec
<1>1. ServerInit => Init
  BY DEF ServerInit
<1>2. [ServerNext]_serverVars => [Next]_allVars
  BY DEF ServerNext, InChat, InAccess, serverVars, allVars
<1> QED BY <1>1, <1>2, PTL DEF ServerSpec, Spec
=============================================================================
