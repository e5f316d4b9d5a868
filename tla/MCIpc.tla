------------------------------- MODULE MCIpc -------------------------------
(* The connection and the output hub (la-ipc): they share no variable, so one   *)
(* run checks each while the other stays in its initial state, under the        *)
(* component's own fairness.                                                    *)
EXTENDS OutputHub, Wire

VARIABLE part   \* the component that runs

\* The daemon's list of versions: it knows the newest, and the one before.
NewestFirst == <<"v2", "v1">>

vars == <<hubVars, wireVars, part>>

MCInit == HubInit /\ WireInit /\ part \in {"hub", "wire"} /\ (part = "wire" \/ offer = {})

MCNext ==
  /\ UNCHANGED part
  /\ \/ part = "hub" /\ HubNext /\ UNCHANGED wireVars
     \/ part = "wire" /\ WireNext /\ UNCHANGED hubVars

\* HubFairness and WireFairness, each of the component that runs.
PartFairness ==
  /\ \A h \in Handles :
       /\ WF_hubVars(part = "hub" /\ Take(h))
       /\ WF_hubVars(part = "hub" /\ Ack(h))
       /\ WF_hubVars(part = "hub" /\ End(h))
  /\ WF_hubVars(part = "hub" /\ \E len \in Lens : Publish(len, FALSE) /\ publishing)
  /\ WF_wireVars(part = "wire" /\ Flushes)
  /\ WF_wireVars(part = "wire" /\ ClientMoves)
  /\ WF_wireVars(part = "wire" /\ ServerMoves)

MCSpec == MCInit /\ [][MCNext]_vars /\ PartFairness

\* A reader comes to know of what is published, a client of the answer to its hello.
IpcMovesOn == PublishedIsTold /\ HelloIsAnswered

=============================================================================
