---------------------------- MODULE ClientDelivery ----------------------------
(***************************************************************************)
(* Delivery and Mailbox of the TypeScript client: facts of one interaction *)
(* arrive live and by replay, in any overlap, and one consumer reads them  *)
(* in the order of the router's sequence.  A fact is its sequence number.  *)
(* JavaScript runs to the next await, so a step is the code between two    *)
(* awaits.                                                                 *)
(***************************************************************************)
EXTENDS Integers, Sequences, FiniteSets, SequencesExt

CONSTANTS MaxLog,     \* bound: facts of the interaction
          MaxPasses,  \* backoff.length, the replay passes of one recovery
          None        \* no recovery, no connection attempt

ASSUME DeliveryAssumption ==
    /\ MaxLog \in Nat /\ MaxPasses \in Nat \ {0}
    /\ None \notin [at : {"open", "replay", "cut", "broken", "wait"}, attempt : Nat, need : BOOLEAN,
                    next : Nat, head : Nat]

VARIABLES
    conn,        \* the transport's connection: "never", "up", "lost" or "down"
    log,         \* facts in the durable log
    applied, pending, state, recovering, closed,   \* Delivery
    pass,        \* where recover is, or None
    queue, done, \* Mailbox
    reader, got  \* the consumer and the facts it has received

deliveryVars == <<log, applied, pending, state, recovering, closed, pass, queue, done, reader, got>>
mailbox == <<queue, done, reader, got>>

DeliveryInit ==
    /\ log = 0
    /\ applied = 0 /\ pending = {} /\ state = "live"
    /\ recovering = FALSE /\ closed = FALSE /\ pass = None
    /\ queue = <<>> /\ done = "open" /\ reader = "none" /\ got = <<>>

------------------------------------------------------------------------------
(* Mailbox.  A consumer that finds nothing waits, and the next push, error *)
(* or close goes to it; an ended mailbox is read to its last item first.   *)
Push(items) ==
    IF done # "open" \/ items = <<>>
    THEN UNCHANGED <<queue, got, reader>>
    ELSE IF reader = "waiting"
    THEN /\ got' = Append(got, Head(items))
         /\ reader' = "reading"
         /\ queue' = queue \o Tail(items)
    ELSE queue' = queue \o items /\ UNCHANGED <<got, reader>>

End(how) ==
    /\ done' = IF done = "open" THEN how ELSE done
    /\ reader' = IF done = "open" /\ reader = "waiting" THEN "ended" ELSE reader
    /\ UNCHANGED <<queue, got>>

(* Fault: an ended mailbox is looked at before its queue.                  *)
ReadEndFirst ==
    /\ reader = "reading"
    /\ IF done = "open" /\ queue # <<>>
       THEN /\ got' = Append(got, Head(queue)) /\ queue' = Tail(queue)
            /\ UNCHANGED reader
       ELSE /\ reader' = IF done = "open" THEN "waiting" ELSE "ended"
            /\ UNCHANGED <<got, queue>>
    /\ UNCHANGED <<log, applied, pending, state, recovering, closed, pass, done>>

(* The iterator: one item, the end, or a wait.                             *)
Read ==
    /\ reader = "reading"
    /\ IF queue # <<>>
       THEN /\ got' = Append(got, Head(queue)) /\ queue' = Tail(queue)
            /\ UNCHANGED reader
       ELSE /\ reader' = IF done = "open" THEN "waiting" ELSE "ended"
            /\ UNCHANGED <<got, queue>>
    /\ UNCHANGED <<log, applied, pending, state, recovering, closed, pass, done>>

(* events() is iterated when no one does, and left again between items.    *)
StartReading == reader = "none" /\ reader' = "reading"
StopReading == reader = "reading" /\ reader' = "none"

------------------------------------------------------------------------------
(* Fault: whatever is held is delivered, over a gap too.                   *)
DrainOverGap(held) ==
    /\ applied' = Max(held)
    /\ pending' = {}
    /\ Push(SetToSortSeq(held, <))
    /\ UNCHANGED done

(* drainContiguous, for a new set of held facts: while the fact after the  *)
(* last one applied is held, it goes to the mailbox.                       *)
Reach(held) ==
    CHOOSE n \in applied..MaxLog :
        /\ \A f \in (applied + 1)..n : f \in held
        /\ n + 1 \notin held

Drain(held) ==
    LET n == Reach(held)
    IN  /\ applied' = n
        /\ pending' = {f \in held : f > n}
        /\ Push([k \in 1..(n - applied) |-> applied + k])
        /\ UNCHANGED done

(* The start of recover: `initial` asks for a pass even without a gap.     *)
Recover(initial) ==
    /\ recovering' = TRUE
    /\ state' = "replaying"
    /\ pass' = [at |-> "open", attempt |-> 0, need |-> initial, next |-> applied' + 1, head |-> 0]

(* Fault: a live fact that opens a gap waits for others to close it.       *)
OfferNeverRecovers(f) ==
    IF closed \/ state = "failed" \/ f <= applied
    THEN UNCHANGED <<applied, pending, state, recovering, pass, mailbox>>
    ELSE Drain(pending \cup {f}) /\ UNCHANGED <<state, recovering, pass>>

Offer(f) ==
    IF closed \/ state = "failed" \/ f <= applied
    THEN UNCHANGED <<applied, pending, state, recovering, pass, mailbox>>
    ELSE /\ Drain(pending \cup {f})
         /\ IF pending' # {} /\ ~recovering THEN Recover(FALSE)
            ELSE UNCHANGED <<state, recovering, pass>>

Prime ==
    IF ~recovering /\ ~closed /\ state # "failed"
    THEN UNCHANGED applied /\ Recover(TRUE)
    ELSE UNCHANGED <<applied, state, recovering, pass>>

CloseDelivery ==
    /\ closed' = TRUE
    /\ End("closed")

------------------------------------------------------------------------------
(* recover, from await to await.                                           *)
Fail ==
    /\ recovering' = FALSE /\ pass' = None
    /\ state' = "failed"
    /\ End("failed")

Wait ==
    /\ state' = "degraded"
    /\ pass' = [pass EXCEPT !.at = "wait"]
    /\ UNCHANGED <<recovering, mailbox>>

Leave ==
    /\ recovering' = FALSE /\ pass' = None
    /\ state' = IF closed THEN state ELSE "live"
    /\ UNCHANGED mailbox

(* Fault: one pass more than the backoff table has pauses.                 *)
LastPassLate == pass.attempt >= MaxPasses

LastPass == pass.attempt + 1 >= MaxPasses

(* The replay has ended without an error.                                  *)
PassReturns ==
    /\ IF pending = {} THEN Leave
       ELSE IF LastPass THEN Fail
       ELSE /\ state' = "degraded"
            /\ pass' = [pass EXCEPT !.at = "wait", !.need = FALSE]
            /\ UNCHANGED <<recovering, mailbox>>
    /\ UNCHANGED <<log, applied, pending, closed>>

PassThrows ==
    /\ pass # None /\ pass.at # "wait"
    /\ IF LastPass THEN Fail ELSE Wait
    /\ UNCHANGED <<log, applied, pending, closed>>

(* Transport.replay: it sends what the log holds when it is opened, may go *)
(* on with what comes later, and ends where nothing is outstanding.        *)
OpenReplay ==
    /\ pass # None /\ pass.at = "open" /\ conn = "up"
    /\ pass' = [pass EXCEPT !.at = "replay", !.head = log]
    /\ UNCHANGED <<log, applied, pending, state, recovering, closed, mailbox>>

ReplayedFact ==
    /\ pass # None /\ pass.at = "replay" /\ pass.next <= log
    /\ ~closed
    /\ pass' = [pass EXCEPT !.next = @ + 1]
    /\ IF pass.next <= applied THEN UNCHANGED <<applied, pending, mailbox>>
       ELSE Drain(pending \cup {pass.next})
    /\ UNCHANGED <<log, state, recovering, closed>>

(* A transport that is closed replays nothing.                             *)
ReplayEnds ==
    /\ pass # None
    /\ \/ pass.at = "replay" /\ (pass.next > pass.head \/ closed)
       \/ pass.at = "open" /\ conn = "down"
    /\ PassReturns

(* A replay cut off by the end of its connection returns what it has.      *)
ReplayCut ==
    /\ pass # None /\ pass.at = "cut"
    /\ PassReturns

(* Fault: the passes are not counted.                                      *)
WaitOverUncounted ==
    /\ pass # None /\ pass.at = "wait"
    /\ IF (pass.need \/ pending # {}) /\ ~closed
       THEN /\ pass' = [pass EXCEPT !.at = IF conn = "up" THEN "open" ELSE "broken",
                                   !.next = applied + 1]
            /\ UNCHANGED <<state, recovering, mailbox>>
       ELSE Leave
    /\ UNCHANGED <<log, applied, pending, closed>>

WaitOver ==
    /\ pass # None /\ pass.at = "wait"
    /\ IF (pass.need \/ pending # {}) /\ ~closed
       THEN /\ pass' = [pass EXCEPT !.at = IF conn = "up" THEN "open" ELSE "broken",
                                   !.attempt = @ + 1, !.next = applied + 1]
            /\ UNCHANGED <<state, recovering, mailbox>>
       ELSE Leave
    /\ UNCHANGED <<log, applied, pending, closed>>

Recovery ==
    OpenReplay \/ ReplayedFact \/ ReplayEnds \/ ReplayCut \/ PassThrows \/ WaitOver
==============================================================================
