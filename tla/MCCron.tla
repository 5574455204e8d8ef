------------------------------- MODULE MCCron -------------------------------
\* Instances of Cron for TLC.  Occurrences reach past MaxTime, so that a
\* schedule has a next one at every instant of a run; `once` has a single one.
EXTENDS Cron

CONSTANTS n1, often, seldom, once, w1, w2

Expressions == [x \in {often, seldom, once} |->
    CASE x = often -> {1, 2, 4} [] x = seldom -> {2, 5} [] x = once -> {1}]
\* Each worker is rolled between two releases.
Releases == [w \in {w1, w2} |-> IF w = w1 THEN {{<<n1, often>>}, {<<n1, seldom>>}}
                               ELSE {{<<n1, often>>}, {<<n1, once>>}}]
\* One clock on time or read late, one behind.
Apart == [w \in {w1, w2} |-> IF w = w1 THEN {0, 1} ELSE {-1}]
=============================================================================
