------------------------------- MODULE MCHub -------------------------------
(* Small instances of Hub.                                                 *)
EXTENDS Hub, TLC

KeyAndRepeats == {[ResolvePath |-> FALSE, IncludeObserverKey |-> TRUE,
                   IncludeRepeats |-> TRUE],
                  [ResolvePath |-> TRUE, IncludeObserverKey |-> TRUE,
                   IncludeRepeats |-> FALSE],
                  DefaultOptions}
KeyOnOff == {[DefaultOptions EXCEPT !.IncludeObserverKey = TRUE],
             [DefaultOptions EXCEPT !.ResolvePath = TRUE]}
RepeatsOn == {[DefaultOptions EXCEPT !.IncludeRepeats = TRUE]}
NoOptions == {}

Observation == [Type |-> "packetObservation", IATA |-> "SEA", PayloadType |-> 4,
                ChannelHash |-> "", RouteType |-> 1, ObserverID |-> "o1"]
OneKind  == {Observation}
TwoKinds == {Observation, [Observation EXCEPT !.RouteType = 2]}

Everything == [Events |-> {}, IATAs |-> {}, PayloadTypes |-> {}, RouteTypes |-> {},
               ChannelHashes |-> {}, ObserverIDs |-> {}]
OneScope  == {Everything}
TwoScopes == {Everything, [Everything EXCEPT !.RouteTypes = {2},
                                             !.ChannelHashes = {"aa"}]}

Symmetry == Permutations(Clients) \cup Permutations(SubIDs)
              \cup Permutations(Workers)
=============================================================================
