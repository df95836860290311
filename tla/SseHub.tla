-------------------------------- MODULE SseHub --------------------------------
(***************************************************************************)
(* The event stream of `autokit serve` (class SseHub of                    *)
(* packages/serve/src/index.ts) as one browser sees it: identifiers, the   *)
(* ring buffer, the replay after a reconnection, the frames that report an *)
(* error and the streams that cannot keep up.                              *)
(*                                                                         *)
(* An event is its number in the life of the server: nothing depends on    *)
(* what it says.                                                           *)
(***************************************************************************)
EXTENDS Naturals, Sequences

CONSTANTS
    Capacity,   \* SSE_REPLAY_CAPACITY
    MaxEvents,  \* events in one life of the server (a bound)
    MaxNotices  \* error frames in one life of the server (a bound)

ASSUME HubAssumption == Capacity \in Nat \ {0} /\ MaxEvents \in Nat /\ MaxNotices \in Nat

VARIABLES
    nextId,     \* the next frame's identifier
    buffer,     \* the last frames published: their identifiers and events
    published,  \* (history) events of this life of the server
    connected,  \* the browser's stream is open
    lastId,     \* what the browser will send as Last-Event-ID, 0 for nothing
    got,        \* (history) the last event the browser has, or has reloaded
    stranger,   \* (history) lastId is from an earlier life of the server
    surprises   \* (history) what went wrong with a replay, see Connect

hubVars == <<nextId, buffer, published, connected, lastId, got, stranger, surprises>>
browser == <<connected, lastId, got, stranger, surprises>>

Ids == 0..(MaxEvents + MaxNotices + 1)
Frames == [id : Ids, event : 1..MaxEvents]

HubTypeOK ==
    /\ nextId \in Ids \ {0} /\ lastId \in Ids
    /\ buffer \in Seq(Frames) /\ Len(buffer) <= Capacity
    /\ published \in 0..MaxEvents /\ got \in 0..MaxEvents
    /\ {connected, stranger} \subseteq BOOLEAN
    /\ surprises \subseteq {"early", "gap", "restart", "needless"}

HubInit ==
    /\ nextId = 1 /\ buffer = <<>> /\ published = 0
    /\ connected = FALSE /\ lastId = 0 /\ got = 0
    /\ stranger = FALSE /\ surprises = {}

\* Error frames take identifiers too, and are not kept for a replay.
MayNotify == (nextId - 1) - published < MaxNotices

-----------------------------------------------------------------------------
(* writeFrame and writeBackpressureAndClose.  All of the frames fs arrive; *)
(* or the stream breaks and only the first k do; or it is full, and closed *)
(* after an error frame, which may arrive behind them.  next is the        *)
(* identifier that comes after those of fs.                                *)

Write(fs, next) ==
    \E k \in 0..Len(fs) : \E end \in {"open", "broken", "full", "full_heard"} :
        /\ end = "open" => k = Len(fs)
        /\ end # "open" => fs # <<>>
        /\ end = "full_heard" => k > 0
        /\ end \in {"full", "full_heard"} => MayNotify
        /\ nextId' = IF end \in {"full", "full_heard"} THEN next + 1 ELSE next
        /\ connected' = (end = "open")
        /\ lastId' = CASE end = "full_heard" -> next
                       [] k > 0 /\ end # "full_heard" -> fs[k].id
                       [] OTHER -> lastId
        /\ stranger' = (stranger /\ k = 0)
        /\ got' = IF k > 0 THEN fs[k].event ELSE got
        /\ surprises' = IF k > 0 /\ fs[1].event # got + 1
                        THEN surprises \cup {IF lastId = 0 THEN "early" ELSE "gap"}
                        ELSE surprises

\* Mutant of LastOf: the oldest frame stays.
LastOf_Unbounded(b) == b

LastOf(b) == IF Len(b) > Capacity THEN Tail(b) ELSE b

Publish ==
    LET frame == [id |-> nextId, event |-> published + 1] IN
    /\ published < MaxEvents
    /\ published' = published + 1
    /\ buffer' = LastOf(Append(buffer, frame))
    /\ IF connected THEN Write(<<frame>>, nextId + 1)
       ELSE nextId' = nextId + 1 /\ UNCHANGED browser

\* The stream of another browser is full, or has nothing to replay.
NotifyAnother ==
    /\ MayNotify
    /\ nextId' = nextId + 1
    /\ UNCHANGED <<buffer, published, browser>>

-----------------------------------------------------------------------------
(* connect and replay                                                      *)

\* A browser that was never sent an identifier has none to send, and nothing is
\* replayed to it: not what it missed between loading the page and its first
\* stream, nor since an earlier stream that broke before its first frame.
ConnectWithoutId ==
    /\ ~connected /\ lastId = 0
    /\ connected' = TRUE /\ got' \in got..published
    /\ UNCHANGED <<nextId, buffer, published, lastId, stranger, surprises>>

Found == {n \in DOMAIN buffer : buffer[n].id = lastId}

\* Mutant of ConnectReplay: the first frame that is missing is left out.
ConnectReplay_OffByOne ==
    /\ ~connected /\ lastId # 0 /\ ~stranger
    /\ \E n \in Found : Write(SubSeq(buffer, n + 2, Len(buffer)), nextId)
    /\ UNCHANGED <<buffer, published>>

\* The frames after the one it had last.  An identifier of an earlier life
\* of the server names another event by now.
ConnectReplay ==
    /\ ~connected /\ lastId # 0 /\ ~stranger
    /\ \E n \in Found : Write(SubSeq(buffer, n + 1, Len(buffer)), nextId)
    /\ UNCHANGED <<buffer, published>>

ConnectStranger ==
    /\ ~connected /\ lastId # 0 /\ stranger
    /\ \E n \in Found : got' = buffer[n].event
    /\ stranger' = FALSE
    /\ surprises' = surprises \cup {"restart"}
    /\ UNCHANGED <<nextId, buffer, published, connected, lastId>>

\* "SSE replay unavailable; reload required": the browser reloads.  It is
\* needless when what it had not seen was still in the buffer.
Missing == {n \in DOMAIN buffer : buffer[n].event = got + 1}

ConnectUnavailable ==
    /\ ~connected /\ lastId # 0 /\ Found = {} /\ MayNotify
    /\ nextId' = nextId + 1
    /\ \/ /\ connected' = TRUE
          /\ lastId' = nextId /\ got' = published /\ stranger' = FALSE
          /\ surprises' = IF ~stranger /\ (got = published \/ Missing # {})
                          THEN surprises \cup {"needless"} ELSE surprises
       \/ UNCHANGED browser  \* broken before it arrives
    /\ UNCHANGED <<buffer, published>>

Disconnect ==
    /\ connected /\ connected' = FALSE
    /\ UNCHANGED <<nextId, buffer, published, lastId, got, stranger, surprises>>

HubStep == NotifyAnother \/ ConnectWithoutId \/ ConnectReplay \/ ConnectStranger
             \/ ConnectUnavailable \/ Disconnect

\* A new server has a new hub; the browser keeps its last identifier.
NewHub ==
    /\ nextId' = 1 /\ buffer' = <<>> /\ published' = 0
    /\ connected' = FALSE /\ got' = 0
    /\ stranger' = (lastId # 0)
    /\ UNCHANGED <<lastId, surprises>>

-----------------------------------------------------------------------------

(* Within one life of the server a browser that comes back with an identifier
   gets every event it has not seen, in order, or is told to reload.  Before
   its first identifier nothing of the kind holds: what it misses ("early") is
   neither sent nor reported.  *)
NoSilentGap == "gap" \notin surprises
=============================================================================
