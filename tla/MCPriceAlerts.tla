---------------------------- MODULE MCPriceAlerts ----------------------------
(* Instances of PriceAlerts for TLC.                                        *)
EXTENDS PriceAlerts

Past == [at |-> "stored", created |-> 1, id |-> 1, told |-> 1]

\* Digests of what others produce, one of which is past, told at once before the subscription
\* was edited: the user follows no price, and the market has closed.
Unfollowed ==
    /\ clock = 3 /\ midnights = <<>> /\ nextId = 2
    /\ note = [k \in Keys |-> IF k = CHOOSE past \in Keys : TRUE THEN Past ELSE NoNote]
    /\ sub \in [frequency : Frequencies \ {"off"}, updated : {2}]
    /\ crossing = NoCrossing
    /\ now = MaxNow /\ rows = [i \in 1..MaxRows |-> [session |-> 0, close |-> 0, stamp |-> 0]]
    /\ desk = [monitoring |-> FALSE, head |-> 1, fact |-> 1, value |-> 0, margin |-> 2]
    /\ left = 0

Row(t, close) == [session |-> Session(t), close |-> close, stamp |-> t]

\* The first row has been found on one side of the boundary; those that came in since have
\* not been looked at. Nobody else has
\* anything to tell, and so many midnights are to come.
Followed(frequency, nights, tick, stamps, value, changes) ==
    /\ clock = MaxBegun + 1 /\ nextId = 1
    /\ midnights = [d \in 1..(MaxDays - nights) |-> 1]
    /\ note = [k \in Keys |-> NoNote]
    /\ sub = [frequency |-> frequency, updated |-> 0]
    /\ now = tick /\ left = changes
    /\ desk = [monitoring |-> TRUE, head |-> 1, fact |-> 1, value |-> value, margin |-> 2]
    /\ rows \in {[i \in 1..Len(stamps) |-> Row(stamps[i], close[i])] :
                    close \in [1..Len(stamps) -> Closes]}
    /\ crossing = [row |-> 1, fact |-> 1, head |-> 1, margin |-> 2,
                   side |-> IF rows[1].close < value - 2 THEN "below" ELSE "above",
                   notified |-> Never]

Quiet ==
    /\ morning = TRUE
    /\ prod = [p \in Producers |-> NoTx] /\ edit = NoEdit
    /\ latest = [f \in DigestFrequencies |-> 0] /\ made = {}
    /\ rep = [r \in Replicas |-> Asleep]
    /\ fetch = [f \in Fetchers |-> Idle]
    /\ ev = [r \in Replicas |-> Off]
    /\ alert = [k \in Keys |-> NoAlert]

\* Two alerts with room for a cooldown in between; changes and crashes against an alert;
\* and alerts that are told by digests.
Slices ==
    /\ \/ Unfollowed
       \/ Followed("immediate", 0, 2, <<0>>, 4, 0)
       \/ Followed("immediate", 0, 3, <<0, 2>>, 4, 1)
       \/ Followed("daily", 1, 3, <<0, 2, 3>>, 4, 1)
    /\ Quiet

SlicedSpec == Slices /\ [][AllNext]_allVars /\ AlertFairness
=============================================================================
