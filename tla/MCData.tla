------------------------------- MODULE MCData -------------------------------
EXTENDS DataSystem, TLC

CONSTANTS d1, d2, m1, i1, i2, q1, t1

Work(local, migrating, docs, images, ingestions, queries) ==
    [local |-> local, migrating |-> migrating, docs |-> docs, images |-> images,
     ingestions |-> ingestions, queries |-> queries]

\* Starts and releases; uploads; ingestions that race, in either store; a
\* question meanwhile.
AllWorks == {Work(TRUE, TRUE, {}, {}, {}, {}),
             Work(TRUE, FALSE, {d1}, {m1}, {}, {}),
             Work(TRUE, FALSE, {d1}, {}, {i1, i2}, {}),
             Work(FALSE, FALSE, {d1}, {}, {i1, i2}, {}),
             Work(TRUE, FALSE, {d1}, {}, {i1}, {q1})}
=============================================================================
