---------------------------- MODULE RuntimeSocket ---------------------------
(***************************************************************************)
(* The server's side of one WebSocket for connected renders: run() in      *)
(* layer/socket.rs.                                                        *)
(*                                                                         *)
(* Two futures share one task.  The receiver reads the browser's messages, *)
(* spawns a task for each requested run and keeps its handle in a map; the *)
(* forwarder moves messages from a bounded channel to the socket.  Every   *)
(* spawned task, and the receiver for its error replies, holds a sender of *)
(* that channel.  Nothing here depends on what a message says, so the      *)
(* channel counts for how full it is.                                      *)
(*                                                                         *)
(* abort() takes effect when the task next yields: until then an aborted   *)
(* task may go on sending, or finish.                                      *)
(***************************************************************************)
EXTENDS Naturals, Sequences

CONSTANTS
    Ids,          \* the run ids a browser may use
    Capacity,     \* messages the channel holds (16 in the code)
    MaxMessages   \* bound: messages read from the browser

ASSUME SocketAssumption ==
    Capacity \in Nat \ {0} /\ MaxMessages \in Nat

VARIABLES
    idOf,         \* idOf[t]: the run id of the t-th task that was spawned
    live,         \* the tasks that are not over
    aborted,      \* the tasks abort() was called on
    runs,         \* run id -> task: the handles the receiver keeps
    receiver,     \* "reading", "replying" with an error, or "ended"
    forwarder,    \* "receiving", "sending" to the socket, or "ended"
    queued,       \* the number of messages in the channel
    received      \* bound counter: messages read

vars == <<idOf, live, aborted, runs, receiver, forwarder, queued, received>>

Tasks == DOMAIN idOf

Init ==
    /\ idOf = << >>
    /\ live = {}
    /\ aborted = {}
    /\ runs = [i \in {} |-> 0]
    /\ receiver = "reading"
    /\ forwarder = "receiving"
    /\ queued = 0
    /\ received = 0

-----------------------------------------------------------------------------
(* The receiver.  A definition marked "Mutant" is a wrong variant of the   *)
(* one below it, used only to show which property notices it.              *)

ReadMessage ==
    /\ receiver = "reading"
    /\ received < MaxMessages /\ received' = received + 1

NoneOf(S) == {}                              \* Mutant: they are not aborted

(* The tasks that abort() is called on when the handles in S are let go. *)
AbortedWith(S) == S

(* A run request: handles of finished tasks are swept out, a task is       *)
(* spawned, and a reused id replaces the run that had it.                  *)
ReadRun(id) ==
    /\ ReadMessage
    /\ LET task == Len(idOf) + 1
           kept == {i \in DOMAIN runs : runs[i] \in live}
       IN  /\ idOf' = Append(idOf, id)
           /\ live' = live \cup {task}
           /\ runs' = [i \in kept \cup {id} |-> IF i = id THEN task ELSE runs[i]]
           /\ aborted' = aborted \cup AbortedWith({runs[i] : i \in kept \cap {id}})
    /\ UNCHANGED <<receiver, forwarder, queued>>

(* The handles that are left once the run `id` is taken out. *)
RunsWithout(id) == [i \in DOMAIN runs \ {id} |-> runs[i]]

(* A stop message; a run that is not there any more is none of its business. *)
ReadStop(id) ==
    /\ ReadMessage
    /\ runs' = RunsWithout(id)
    /\ aborted' = aborted \cup AbortedWith({runs[i] : i \in DOMAIN runs \cap {id}})
    /\ UNCHANGED <<idOf, live, receiver, forwarder, queued>>

(* A message that does not parse. *)
ReadInvalid ==
    /\ ReadMessage
    /\ receiver' = "replying"
    /\ UNCHANGED <<idOf, live, aborted, runs, forwarder, queued>>

NeverClosed == FALSE                         \* Mutant: senders never find out

(* The channel's receiver is dropped with the forwarder that owned it. *)
Closed == forwarder = "ended"

HasRoom == ~Closed /\ queued < Capacity

(* The error reply gets its place in the channel. *)
ReplySent ==
    /\ receiver = "replying" /\ HasRoom
    /\ receiver' = "reading" /\ queued' = queued + 1
    /\ UNCHANGED <<idOf, live, aborted, runs, forwarder, received>>

(* After the loop every run that is left is aborted. *)
ReceiverEnds ==
    /\ receiver' = "ended"
    /\ aborted' = aborted \cup AbortedWith({runs[i] : i \in DOMAIN runs})
    /\ runs' = [i \in {} |-> 0]
    /\ UNCHANGED <<idOf, live, forwarder, queued, received>>

(* There is nobody to forward the reply: the loop breaks. *)
ReplyFails == receiver = "replying" /\ Closed /\ ReceiverEnds

(* The message stream ends: the browser closed the socket, or it was lost. *)
StreamEnds == receiver = "reading" /\ ReceiverEnds

-----------------------------------------------------------------------------
(* The spawned tasks: Connection::render().                                *)

(* A frame, a redirect or an error gets its place in the channel. *)
TaskSends(t) ==
    /\ t \in live /\ HasRoom
    /\ queued' = queued + 1
    /\ UNCHANGED <<idOf, live, aborted, runs, receiver, forwarder, received>>

(* The task is over: the render is complete, it panicked, a send failed,   *)
(* or it was aborted.                                                      *)
TaskEnds(t) ==
    /\ t \in live
    /\ live' = live \ {t}
    /\ UNCHANGED <<idOf, aborted, runs, receiver, forwarder, queued, received>>

-----------------------------------------------------------------------------
(* The forwarder.                                                          *)

ForwardTakes ==
    /\ forwarder = "receiving" /\ queued > 0
    /\ forwarder' = "sending" /\ queued' = queued - 1
    /\ UNCHANGED <<idOf, live, aborted, runs, receiver, received>>

ForwardSent ==
    /\ forwarder = "sending" /\ forwarder' = "receiving"
    /\ UNCHANGED <<idOf, live, aborted, runs, receiver, queued, received>>

(* The socket does not take the message; what is queued is lost with it. *)
ForwardFails ==
    /\ forwarder = "sending" /\ forwarder' = "ended"
    /\ queued' = 0
    /\ UNCHANGED <<idOf, live, aborted, runs, receiver, received>>

(* The channel is empty and every sender is gone. *)
ForwardEnds ==
    /\ forwarder = "receiving" /\ queued = 0
    /\ receiver = "ended" /\ live = {}
    /\ forwarder' = "ended"
    /\ UNCHANGED <<idOf, live, aborted, runs, receiver, queued, received>>

-----------------------------------------------------------------------------
Receiver ==
    \/ \E id \in Ids : ReadRun(id) \/ ReadStop(id)
    \/ ReadInvalid \/ ReplySent \/ ReplyFails \/ StreamEnds

Task(t) == TaskSends(t) \/ TaskEnds(t)

Forwarder == ForwardTakes \/ ForwardSent \/ ForwardFails \/ ForwardEnds

Next == Receiver \/ Forwarder \/ \E t \in Tasks : Task(t)

Spec == Init /\ [][Next]_vars

(***************************************************************************)
(* An aborted task ends when it next yields.  A send to the socket         *)
(* completes or fails, and the forwarder then goes on.  A sender that      *)
(* waits for room is not overtaken for ever, since tokio's channel hands   *)
(* out its permits in the order they were asked for: strong fairness.      *)
(* Neither does the browser have to send or to close anything, nor a       *)
(* render to produce frames or to end.                                     *)
(***************************************************************************)
Fairness ==
    /\ \A t \in 1..MaxMessages : WF_vars(t \in aborted /\ TaskEnds(t))
    /\ WF_vars(ForwardTakes) /\ WF_vars(ForwardEnds)
    /\ WF_vars(ForwardSent \/ ForwardFails)
    /\ SF_vars(ReplySent) /\ WF_vars(ReplyFails)

FairSpec == Spec /\ Fairness

-----------------------------------------------------------------------------
(* Properties *)

(* Type correctness. *)
TypeOK ==
    /\ idOf \in Seq(Ids) /\ Len(idOf) <= received
    /\ live \in SUBSET Tasks /\ aborted \in SUBSET Tasks
    /\ DOMAIN runs \in SUBSET Ids /\ \A i \in DOMAIN runs : runs[i] \in Tasks
    /\ receiver \in {"reading", "replying", "ended"}
    /\ forwarder \in {"receiving", "sending", "ended"}
    /\ queued \in 0..Capacity
    /\ received \in 0..MaxMessages

(* A task that still renders and was not aborted is the one the receiver   *)
(* holds under its id, so that a stop, a reused id or the end of the       *)
(* connection reaches it.  Any other would render for nobody, possibly for *)
(* ever, and hold the channel open.                                        *)
NoOrphanedRun ==
    \A t \in live \ aborted : idOf[t] \in DOMAIN runs /\ runs[idOf[t]] = t

(* Only what the browser stopped, replaced or lost is aborted: a run whose *)
(* handle is kept goes on.                                                 *)
KeptRunsGoOn == \A i \in DOMAIN runs : runs[i] \notin aborted

(* run() returns after its message stream has ended: no render and no full *)
(* channel keeps a connection alive that the browser has left.             *)
ConnectionWindsDown ==
    receiver = "ended" ~> (live = {} /\ forwarder = "ended")

(* An error reply that waits for room does not keep the receiver from      *)
(* reading stop messages for ever.                                         *)
ReplyIsNotStuck == receiver = "replying" ~> receiver # "replying"
=============================================================================
