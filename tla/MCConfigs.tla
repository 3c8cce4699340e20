----------------------------- MODULE MCConfigs -----------------------------
(***************************************************************************)
(* Small configurations, for model checking.                               *)
(***************************************************************************)
EXTENDS Sequences, Integers

Wave(t, ds) == [bakeTime |-> t, deployments |-> ds]

Contents ==
  [\* One environment, three waves: the second context of the controller tests.
   Chain |-> << << Wave(1, <<"a">>), Wave(1, <<"b">>), Wave(1, <<"c">>) >> >>,
   \* Two environments: dev, then production in two waves.
   TwoEnvironments |->
     << << Wave(1, <<"a">>) >>, << Wave(1, <<"b">>), Wave(1, <<"c">>) >> >>,
   \* One environment of two deployments, both followed by the next environment,
   \* with and without a bake time.
   Join |-> << << Wave(1, <<"a", "b">>) >>, << Wave(0, <<"c">>) >> >>,
   JoinUnbaked |-> << << Wave(0, <<"a", "b">>) >>, << Wave(0, <<"c">>) >> >>,
   \* Two deployments in a first wave that waits for the second one.
   TwinFirstWave |-> << << Wave(1, <<"a", "b">>), Wave(0, <<"c">>) >> >>,
   \* One environment, two waves; without its first bake time; without its
   \* second wave.
   Pair |-> << << Wave(1, <<"a">>), Wave(1, <<"b">>) >> >>,
   Hasty |-> << << Wave(0, <<"a">>), Wave(1, <<"b">>) >> >>,
   Solo |-> << << Wave(1, <<"a">>) >> >>,
   \* The waves of Pair the other way round.
   Backward |-> << << Wave(1, <<"b">>), Wave(1, <<"a">>) >> >>,
   \* Two environments of one deployment each, the second one baked or not.
   Succession |-> << << Wave(1, <<"a">>) >>, << Wave(1, <<"b">>) >> >>,
   Forward |-> << << Wave(1, <<"a">>) >>, << Wave(0, <<"b">>) >> >>]

Of(configs) == [c \in configs |-> Contents[c]]

\* Each configuration belongs to at most one of the families.
Among(configs, families) == [c \in configs |-> UNION {f \in families : c \in f} \ {c}]

SafetyConfigs ==
  {"TwoEnvironments", "Join", "Pair", "Solo", "Succession", "Forward", "Backward", "Hasty"}
SafetyContent == Of(SafetyConfigs)
SafetyReplacement ==
  Among(SafetyConfigs, {{"Pair", "Solo"}, {"Forward", "Backward", "Hasty"}})
SafetyEdits ==
  [c \in SafetyConfigs |->
     IF c \in {"Pair", "Solo"} THEN 2 ELSE IF c \in {"Forward", "Backward", "Hasty"} THEN 1 ELSE 0]
SafetyNewest == [c \in SafetyConfigs |-> IF c = "Succession" THEN 3 ELSE 2]

UnbakedConfigs == {"JoinUnbaked"}
UnbakedContent == Of(UnbakedConfigs)
UnbakedReplacement == Among(UnbakedConfigs, {})
UnbakedEdits == [c \in UnbakedConfigs |-> 0]
UnbakedNewest == [c \in UnbakedConfigs |-> 2]

LivenessConfigs == {"Pair", "Solo", "Chain", "Join", "Backward", "Hasty"}
OverlappingConfigs == {"Pair", "Solo"}
LivenessContent == Of(LivenessConfigs)
LivenessReplacement == Among(LivenessConfigs, {{"Pair", "Solo"}, {"Backward", "Hasty"}})
LivenessEdits == [c \in LivenessConfigs |-> IF c \in {"Chain", "Join"} THEN 0 ELSE 1]
LivenessNewest == [c \in LivenessConfigs |-> 3]

NoConfigs == {}
TwinConfigs == {"TwinFirstWave"}
TwinContent == Of(TwinConfigs)
TwinReplacement == Among(TwinConfigs, {})
TwinEdits == [c \in TwinConfigs |-> 0]
TwinNewest == [c \in TwinConfigs |-> 3]

=============================================================================
