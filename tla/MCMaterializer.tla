--------------------------- MODULE MCMaterializer ---------------------------
(* TLC instances of Materializer.                                          *)
EXTENDS Materializer, TLC

Even == [kind |-> "cron", every |-> 2, phase |-> 0]
EveryThird == [kind |-> "cron", every |-> 3, phase |-> 1]
ByTwo == [kind |-> "interval", every |-> 2, phase |-> 0]
Once == [kind |-> "one_off", every |-> 1, phase |-> 3]

OneOfEachKind == {EveryThird, ByTwo, Once}
OneCron == {Even}

Coalesce(g) == [misfire |-> "coalesce", grace |-> g]
Skip(g) == [misfire |-> "skip", grace |-> g]

AnyPolicy == {Coalesce(1), Skip(2)}
CoalesceOnly == {Coalesce(1)}

Interchangeable == Permutations(Passes) \cup Permutations(Activators)
=============================================================================
