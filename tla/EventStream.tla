---------------------------- MODULE EventStream ----------------------------
(***************************************************************************)
(* GET /api/runs/{id}/events: the server polls run_events and the run's    *)
(* status, sends what it finds as Server-Sent Events, and closes after a   *)
(* "terminal" marker.  A client that lost its connection comes back with   *)
(* the id of the last event it received, as the SSE protocol has it.       *)
(*                                                                         *)
(* The run is seen from outside: its executor appends events, numbered     *)
(* 0, 1, 2, ... without a gap (RunExecution), and then sets the status.    *)
(***************************************************************************)
EXTENDS Integers, Sequences, FiniteSets

CONSTANTS
    Clients,
    MaxSeq,             \* bound: the highest seq the run ever appends
    MaxConnections      \* max_sse_connections

ASSUME StreamAssumption ==
    /\ IsFiniteSet(Clients)
    /\ MaxSeq \in Nat /\ MaxConnections \in Nat \ {0}

VARIABLES
    status,     \* QueryRun.status
    last,       \* the highest seq in run_events, or -1
    at,         \* at[c]: where the generator that serves c stands
    after,      \* after[c]: after_seq, the last event yielded to c
    listed,     \* listed[c]: the last event of the rows it is yielding
    wire,       \* wire[c]: messages on their way to c
    lastId,     \* lastId[c]: the id of the last message c received
    active      \* app.state.active_sse_connections

serverVars == <<at, after, listed, active>>
vars == <<status, last, serverVars, wire, lastId>>

\* Ids other than a seq: nothing received yet, and "terminal", which int() rejects.
None     == -1
Marker   == -2
Final    == {"completed", "failed"}
Terminal == Final \cup {"awaiting_confirmation", "retryable"}

Init ==
    /\ status = "running" /\ last = -1
    /\ at = [c \in Clients |-> "closed"]
    /\ after = [c \in Clients |-> -1] /\ listed = [c \in Clients |-> -1]
    /\ wire = [c \in Clients |-> <<>>]
    /\ lastId = [c \in Clients |-> None]
    /\ active = 0

Go(c, place) == at' = [at EXCEPT ![c] = place]

-----------------------------------------------------------------------------
(* The run                                                                 *)

AppendEvent ==
    /\ status = "running" /\ last < MaxSeq
    /\ last' = last + 1
    /\ UNCHANGED <<status, serverVars, wire, lastId>>

SetStatus ==
    /\ \/ status = "running" /\ status' \in Terminal
       \/ status \in Terminal \ Final /\ status' = "running"
    /\ UNCHANGED <<last, serverVars, wire, lastId>>

-----------------------------------------------------------------------------
(* stream_events                                                           *)

\* Fault: the resumed stream begins with the event the client already has.
ResumeAtLast(id) == IF id <= 0 THEN -1 ELSE id - 1

\* Whatever is not a number stands for the whole stream.
ParseLastEventId(id) == IF id = Marker THEN -1 ELSE id

Open(c) ==
    /\ at[c] = "closed" /\ wire[c] = <<>>
    /\ active < MaxConnections
    /\ active' = active + 1
    /\ after' = [after EXCEPT ![c] = ParseLastEventId(lastId[c])]
    /\ Go(c, "listing")
    /\ UNCHANGED <<status, last, listed, wire, lastId>>

ListEvents(c) ==
    /\ at[c] = "listing"
    /\ listed' = [listed EXCEPT ![c] = last]
    /\ Go(c, "yielding")
    /\ UNCHANGED <<status, last, after, active, wire, lastId>>

Yield(c) ==
    /\ at[c] = "yielding" /\ after[c] < listed[c]
    /\ after' = [after EXCEPT ![c] = @ + 1]
    /\ wire' = [wire EXCEPT ![c] = Append(@, after[c] + 1)]
    /\ UNCHANGED <<status, last, at, listed, active, lastId>>

\* Fault: the stream waits for the run to be completed or failed.
CheckFinal(c) ==
    /\ at[c] = "yielding" /\ after[c] >= listed[c]
    /\ IF status \in Final /\ after[c] = last
       THEN Go(c, "closing") /\ wire' = [wire EXCEPT ![c] = Append(@, Marker)]
       ELSE Go(c, "sleeping") /\ UNCHANGED wire
    /\ UNCHANGED <<status, last, after, listed, active, lastId>>

CheckStatus(c) ==
    /\ at[c] = "yielding" /\ after[c] >= listed[c]
    /\ IF status \in Terminal
       THEN Go(c, "closing") /\ wire' = [wire EXCEPT ![c] = Append(@, Marker)]
       ELSE Go(c, "sleeping") /\ UNCHANGED wire
    /\ UNCHANGED <<status, last, after, listed, active, lastId>>

\* POLL_INTERVAL
Wake(c) ==
    /\ at[c] = "sleeping"
    /\ Go(c, "listing")
    /\ UNCHANGED <<status, last, after, listed, active, wire, lastId>>

\* The finally block of tracked_generator.
Close(c) ==
    /\ at[c] = "closing"
    /\ Go(c, "closed")
    /\ active' = IF active > 0 THEN active - 1 ELSE 0
    /\ UNCHANGED <<status, last, after, listed, wire, lastId>>

\* The connection breaks, or a query of the generator fails: what the client
\* has not received by now it never will.
Disconnect(c) ==
    /\ at[c] # "closed" \/ wire[c] # <<>>
    /\ Go(c, IF at[c] = "closed" THEN "closed" ELSE "closing")
    /\ \E n \in 0..Len(wire[c]) : wire' = [wire EXCEPT ![c] = SubSeq(@, 1, n)]
    /\ UNCHANGED <<status, last, after, listed, active, lastId>>

-----------------------------------------------------------------------------
Receive(c) ==
    /\ wire[c] # <<>>
    /\ wire' = [wire EXCEPT ![c] = Tail(@)]
    /\ lastId' = [lastId EXCEPT ![c] = Head(wire[c])]
    /\ UNCHANGED <<status, last, serverVars>>

ServerStep(c) ==
    ListEvents(c) \/ Yield(c) \/ CheckStatus(c) \/ Wake(c) \/ Close(c)

Next ==
    \/ AppendEvent \/ SetStatus
    \/ \E c \in Clients : Open(c) \/ ServerStep(c) \/ Disconnect(c) \/ Receive(c)

Spec == Init /\ [][Next]_vars

\* One event loop: a generator whose sleep or query is over goes on.
FairSpec == Spec /\ \A c \in Clients : WF_vars(ServerStep(c))

-----------------------------------------------------------------------------
(* Properties                                                              *)

Ids == 0..MaxSeq \cup {Marker}

(* Cursors, messages and the connection counter stay in their ranges.      *)
TypeOK ==
    /\ status \in Terminal \cup {"running"} /\ last \in -1..MaxSeq
    /\ at \in [Clients -> {"closed", "listing", "yielding", "sleeping", "closing"}]
    /\ after \in [Clients -> -1..MaxSeq] /\ listed \in [Clients -> -1..MaxSeq]
    /\ \A c \in Clients : wire[c] \in Seq(Ids)
    /\ lastId \in [Clients -> Ids \cup {None}]
    /\ active \in 0..MaxConnections

(* "streams run_events in seq order" and resumes after Last-Event-ID: over *)
(* broken connections and polls that race with the executor, each event    *)
(* sent to a client follows the one before, none left out and none twice.  *)
NextIsSuccessor ==
    \A c \in Clients : \A n \in DOMAIN wire[c] :
       LET previous == IF n = 1 THEN lastId[c] ELSE wire[c][n - 1]
       IN  wire[c][n] # Marker =>
              wire[c][n] = 1 + (IF previous = Marker THEN None ELSE previous)

(* No client is left listening to a run that waits for it: once the run    *)
(* pauses or ends for good, an open stream closes, unless it is resumed.   *)
StreamCloses ==
    \A c \in Clients :
       (at[c] # "closed" /\ status \in Terminal) ~> (at[c] = "closed" \/ status = "running")

(* The stream "closes after the terminal event": the marker comes after    *)
(* every event the run had recorded when its status was read.              *)
MarkerAfterEvents ==
    [][\A c \in Clients :
          Len(wire'[c]) > Len(wire[c]) /\ wire'[c][Len(wire'[c])] = Marker =>
             after[c] >= last]_vars
=============================================================================
