---------------------------- MODULE JsonMailbox ----------------------------
(***************************************************************************)
(* JsonGuest and serve_json (json/json_contract.mbt): a call is written    *)
(* into a mailbox, one dispatch over an empty range makes the Guest read   *)
(* it and write its answer back, and the Host reads that.  Request and     *)
(* response share one payload area, so each overwrites the other.          *)
(*                                                                         *)
(* A text is a name and the number of its bytes.  The dispatch is that of  *)
(* a pool of one Worker: post is its epoch, taken the epoch the Guest is   *)
(* serving and served the one it has acknowledged.  A dispatch that times  *)
(* out leaves the Guest at work (Dispatch.tla).                            *)
(***************************************************************************)
EXTENDS Integers

CONSTANTS Requests,      \* texts of requests
          Response,      \* the handler: the text it answers each with
          Size,          \* bytes of each text
          MailboxBytes,  \* the option mailbox_bytes
          MaxCalls,      \* bound on the calls of a run
          MaxLost        \* bound on the dispatches that time out

Texts == Requests \cup {Response[r] : r \in Requests} \cup {"diagnostic", "empty"}

ASSUME MailboxAssumption == /\ MailboxBytes \in Nat \ {0}
                            /\ DOMAIN Response = Requests
                            /\ Texts \subseteq DOMAIN Size
                            /\ \A t \in Texts : Size[t] \in Nat
                            /\ MaxCalls \in Nat /\ MaxLost \in Nat

VARIABLES hpc, gpc,            \* where the Host and the Guest are
          reqLen, respLen, status, payload,  \* the mailbox
          guestBusy,           \* JsonGuest.busy
          down,                \* the pool has failed or was closed
          post, taken, served,
          asked,               \* the request of the last call
          answer,              \* how it ended
          working,             \* what the Guest has read
          calls, lost

mailbox     == <<reqLen, respLen, status, payload>>
hostVars    == <<hpc, guestBusy, down, post, asked, answer, calls, lost>>
guestVars   == <<gpc, taken, served, working>>
mailboxVars == <<mailbox, hostVars, guestVars>>

(* mailbox_capacity_words: the payload area is a whole number of words.    *)
PayloadBytes == 4 * ((MailboxBytes + 3) \div 4)

MailboxInit ==
    /\ hpc = "idle" /\ gpc = "idle"
    /\ reqLen = 0 /\ respLen = 0 /\ status = "pending" /\ payload = "empty"
    /\ guestBusy = FALSE /\ down = FALSE
    /\ post = 0 /\ taken = 0 /\ served = 0
    /\ asked = "empty" /\ answer = <<"none">> /\ working = "empty"
    /\ calls = 0 /\ lost = 0

(* read_utf8: bytes that are not those of one whole text make no sense.    *)
ReadText(length) == IF length = Size[payload] THEN payload ELSE "garbled"

Finish(result) == answer' = result /\ guestBusy' = FALSE /\ hpc' = "idle"

(* Mutant of BeginCall: the call in flight is not looked at. *)
BeginCallAnyway(r) ==
    /\ calls < MaxCalls
    /\ calls' = calls + 1 /\ asked' = r
    /\ respLen' = 0 /\ status' = "pending" /\ payload' = r /\ reqLen' = Size[r]
    /\ guestBusy' = TRUE /\ hpc' = "waiting" /\ post' = post + 1
    /\ answer' = <<"none">>
    /\ UNCHANGED <<down, lost, guestVars>>

(* call: prepare_call and the start of the dispatch.  A request that does  *)
(* not fit raises CapacityExceeded and leaves the mailbox pending; a pool  *)
(* that takes no dispatch is found out when the mailbox has been written.  *)
BeginCall(r) ==
    /\ ~ guestBusy /\ calls < MaxCalls
    /\ calls' = calls + 1
    /\ asked' = r
    /\ respLen' = 0 /\ status' = "pending"
    /\ IF Size[r] > PayloadBytes
       THEN Finish(<<"capacity">>) /\ UNCHANGED <<payload, reqLen, post>>
       ELSE /\ payload' = r /\ reqLen' = Size[r]
            /\ IF down
               THEN Finish(<<"transport">>) /\ UNCHANGED post
               ELSE /\ guestBusy' = TRUE /\ hpc' = "waiting" /\ post' = post + 1
                    /\ answer' = <<"none">>
    /\ UNCHANGED <<down, lost, guestVars>>

(* A call_async while another one is in flight raises Busy. *)
BusyCall == /\ guestBusy /\ calls < MaxCalls
            /\ calls' = calls + 1
            /\ UNCHANGED <<mailbox, guestVars, hpc, guestBusy, down, post, asked,
                           answer, lost>>

(* finish_call, after a dispatch that succeeded. *)
FinishCall ==
    /\ hpc = "waiting" /\ ~ down /\ served = post
    /\ Finish(IF respLen < 0 \/ respLen > MailboxBytes THEN <<"transport">>
              ELSE CASE status = "ok" /\ ReadText(respLen) \in Texts ->
                                              <<"ok", ReadText(respLen)>>
                     [] status = "error" -> <<"guest failed">>
                     [] OTHER            -> <<"transport">>)
    /\ UNCHANGED <<mailbox, guestVars, down, post, asked, calls, lost>>

(* pool.run raises: it timed out, or the pool has failed or was closed.    *)
DispatchFailed == /\ hpc = "waiting" /\ (down \/ gpc = "dead")
                  /\ down' = TRUE
                  /\ Finish(<<"transport">>)
                  /\ UNCHANGED <<mailbox, guestVars, post, asked, calls, lost>>

DispatchTimeout == /\ hpc = "waiting" /\ served # post /\ lost < MaxLost
                   /\ lost' = lost + 1
                   /\ Finish(<<"transport">>)
                   /\ UNCHANGED <<mailbox, guestVars, down, post, asked, calls>>

(* close terminates the Worker wherever it is. *)
CloseGuest == /\ ~ down
              /\ down' = TRUE /\ gpc' = "dead"
              /\ UNCHANGED <<mailbox, hpc, guestBusy, post, asked, answer, calls, lost,
                             taken, served, working>>

-----------------------------------------------------------------------------
(* serve_json.  The Guest takes a dispatch, reads the length and then the  *)
(* payload, and writes the payload and then the length and the status.     *)
TakeCall == /\ gpc = "idle" /\ taken # post
            /\ gpc' = "parse" /\ taken' = post
            /\ UNCHANGED <<mailbox, hostVars, served, working>>

ParseRequest == /\ gpc = "parse"
                /\ gpc' = "reply"
                /\ working' = IF reqLen < 0 \/ reqLen > PayloadBytes THEN "garbled"
                              ELSE ReadText(reqLen)
                /\ UNCHANGED <<mailbox, hostVars, taken, served>>

(* What the Guest has to say, and the status that goes with it.            *)
Reply == IF working \in Requests THEN [text |-> Response[working], status |-> "ok"]
         ELSE [text |-> "diagnostic", status |-> "error"]
ReplyFits == Size[Reply.text] <= PayloadBytes

(* write_guest_result, first the text if it fits.  A handler may throw.    *)
WriteReply == /\ gpc = "reply"
              /\ \/ /\ gpc' = "answer"
                    /\ payload' = IF ReplyFits THEN Reply.text ELSE payload
                 \/ /\ working \in Requests
                    /\ gpc' = "dead" /\ UNCHANGED payload
              /\ UNCHANGED <<reqLen, respLen, status, hostVars, taken, served, working>>

WriteStatus == /\ gpc = "answer"
               /\ respLen' = IF ReplyFits THEN Size[Reply.text] ELSE 0
               /\ status' = IF ReplyFits THEN Reply.status ELSE "error"
               /\ gpc' = "done"
               /\ UNCHANGED <<reqLen, payload, hostVars, taken, served, working>>

Acknowledge == /\ gpc = "done"
               /\ gpc' = "idle" /\ served' = taken
               /\ UNCHANGED <<mailbox, hostVars, taken, working>>

GuestStep == TakeCall \/ ParseRequest \/ WriteReply \/ WriteStatus \/ Acknowledge

MailboxNext == \/ \E r \in Requests : BeginCall(r)
               \/ BusyCall \/ FinishCall \/ DispatchFailed \/ DispatchTimeout
               \/ CloseGuest \/ GuestStep

-----------------------------------------------------------------------------
(* While no dispatch has timed out, a call that ends well has the          *)
(* handler's answer to its own request; the Guest is said to have failed   *)
(* only over a response the payload area cannot hold; and a pool that is   *)
(* up loses a response only when it is longer than mailbox_bytes.          *)
ResponseMatches ==
    lost = 0 /\ hpc = "idle" /\ asked # "empty" =>
        /\ answer[1] = "ok" => answer[2] = Response[asked]
        /\ answer[1] = "guest failed" => Size[Response[asked]] > PayloadBytes
        /\ answer[1] = "transport" /\ ~ down => Size[Response[asked]] > MailboxBytes
=============================================================================
