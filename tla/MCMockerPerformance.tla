------------------------- MODULE MCMockerPerformance -------------------------
(* Model checking of MockerPerformance: two domains, one of which can be set *)
(* and notifies, and levels below, inside and above what they list.          *)
EXTENDS MockerPerformance

MCChannel == [doorbell |-> FALSE]

MCPerformance ==
  [domains |-> 2, statistics |-> 0, limitable |-> {0}, levelable |-> {0, 1},
   limitNotify |-> {0}, levelNotify |-> {}, fastDomains |-> {1},
   fastMessages |-> {PERFORMANCE_LIMITS_SET, PERFORMANCE_LEVEL_SET},
   levels |-> [d \in 0..1 |-> IF d = 0 THEN <<2, 4>> ELSE <<4>>],
   channel |-> [d \in 0..1 |-> [m \in PERFORMANCE_LIMITS_SET..PERFORMANCE_LEVEL_GET |->
                                  MCChannel]]]

MCId    == {0, 1, 2, 5, 6, 12}
MCLevel == 0..5

=============================================================================
