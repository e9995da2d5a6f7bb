--------------------------- MODULE RequestRegistry ---------------------------
(***************************************************************************)
(* The registry of client requests (internal/relay/state.go): the rounds   *)
(* of each request and their chain of attempts, manual interruption, the   *)
(* terminal states with their log row, the bounded history, and the log    *)
(* pages that follow it over server-sent events.                           *)
(*                                                                         *)
(* Every operation runs under the package's mutex and is one action, with  *)
(* one exception: Interrupt takes the round's cancel function under the    *)
(* mutex and calls it after unlocking.  Between its operations a request   *)
(* is where Forward (handler.go) left it.                                  *)
(***************************************************************************)
EXTENDS Naturals, Sequences, FiniteSets

CONSTANTS
    Request,        \* request IDs, given out in increasing order
    Streaming,      \* the requests that asked for a stream
    Page,           \* connections to the status stream
    Admin,          \* callers of Interrupt
    StreamBuffer,   \* streamBuffer (16 in the code)
    MaxFinished,    \* maxFinished (50 in the code)
    DetailMax,      \* RelayAttemptDetailMax (32 in the code)
    MaxRound        \* bound on the rounds of each request

ASSUME RegistryAssumption ==
    /\ Request \subseteq Nat \ {0} /\ IsFiniteSet(Request)
    /\ Streaming \subseteq Request
    /\ {StreamBuffer, MaxFinished, DetailMax} \subseteq Nat \ {0}
    /\ MaxRound \in [Request -> Nat]

VARIABLES
    state,       \* what is published of each request
    cancel,      \* whether the request's cancel function is set
    fault,       \* roundFaultKind: the round that just ended was a failure
    registered,  \* the requests in the map
    place,       \* where each request is in Forward
    calling,     \* the round whose cancel function an Interrupt is holding
    killed,      \* requests whose round's context an Interrupt cancelled
    page,        \* the connections
    row          \* the rows of relay_logs

registryVars ==
    <<state, cancel, fault, registered, place, calling, killed, page, row>>

(* A request that has not arrived, and a row that was not written. *)
Unborn == [status |-> "none", round |-> 0, sending |-> FALSE, error |-> FALSE,
           reported |-> FALSE, stop |-> "", chain |-> <<>>, truncated |-> FALSE]

Live(s) == s.status \in {"running", "committed"}
Done(s) == s.status \in {"success", "failed", "canceled"}
Offline == [open |-> FALSE, shown |-> [r \in Request |-> Unborn], queue |-> <<>>]
NoCall == <<0, 0>>
Round(r) == <<r, state[r].round>>

(* The round's context is still in use: until Forward cancels it itself,   *)
(* after a failed round, a plain answer, or the last frame of a stream.    *)
InUse(r) ==
    \/ place[r] = "waiting"
    \/ r \in Streaming /\ place[r] \in {"answered", "writing"}

-----------------------------------------------------------------------------
(* Parts of the operations.                                                *)

(* publishRequestLocked: a full connection is closed, its browser comes    *)
(* back and gets a snapshot.                                               *)
OfferedLossy(p, r, s) ==        \* mutant: the update is dropped instead
    IF Len(p.queue) < StreamBuffer THEN [p EXCEPT !.queue = Append(@, <<r, s>>)] ELSE p
Offered(p, r, s) ==
    IF Len(p.queue) < StreamBuffer THEN [p EXCEPT !.queue = Append(@, <<r, s>>)] ELSE Offline

Publish(r, s) ==
    /\ state' = [state EXCEPT ![r] = s]
    /\ page' = [w \in Page |-> IF page[w].open THEN Offered(page[w], r, s) ELSE page[w]]

(* archiveRoundLocked: the newest DetailMax rounds are kept. *)
ArchivedHead(s, f) ==           \* mutant: the chain is cut at the wrong end
    IF s.round = 0 THEN s
    ELSE IF Len(s.chain) = DetailMax THEN [s EXCEPT !.truncated = TRUE]
    ELSE [s EXCEPT !.chain = Append(@, [round |-> s.round, fault |-> f])]
Archived(s, f) ==
    LET chain == Append(s.chain, [round |-> s.round, fault |-> f])
        over == Len(chain) > DetailMax
    IN IF s.round = 0 THEN s
       ELSE [s EXCEPT !.chain = IF over THEN Tail(chain) ELSE chain,
                      !.truncated = @ \/ over]

(* finishRound. *)
EndedAbortSends(s, failed, aborted) ==  \* mutant: an aborted round stays in flight
    [s EXCEPT !.sending = aborted, !.error = failed /\ ~aborted]
Ended(s, failed, aborted) ==
    [s EXCEPT !.sending = FALSE, !.error = failed /\ ~aborted]

(* The history drops its oldest finished request when it is full. *)
Evicted(finished) ==
    {q \in finished : Cardinality(finished) > MaxFinished /\ \A p \in finished : q <= p}

(* The row is written from the request as it is. *)
SavedEarly(s) == [s EXCEPT !.stop = ""]  \* mutant: before the stop reason is set
Saved(s) == s

(* finishLocked, for the terminal state s. *)
FinishLocked(r, s) ==
    LET final == [Archived(s, fault[r]) EXCEPT !.sending = FALSE]
        finished == {q \in registered : q = r \/ Done(state[q])}
    IN
    /\ Publish(r, final)
    /\ row' = [row EXCEPT ![r] = Saved(final)]
    /\ registered' = registered \ Evicted(finished)
    /\ cancel' = [cancel EXCEPT ![r] = FALSE]
    /\ place' = [place EXCEPT ![r] = "returned"]
    /\ UNCHANGED <<fault, calling, killed>>

-----------------------------------------------------------------------------
(* The goroutine of a request.                                             *)

NewRequestState(r) ==
    /\ place[r] = "new"
    /\ \A q \in Request : q < r => place[q] # "new"
    /\ registered' = registered \cup {r}
    /\ Publish(r, [Unborn EXCEPT !.status = "running"])
    /\ place' = [place EXCEPT ![r] = "idle"]
    /\ UNCHANGED <<cancel, fault, calling, killed, row>>

StartRound(r) ==
    /\ place[r] = "idle"
    /\ state[r].round < MaxRound[r]
    /\ Publish(r, [Archived(state[r], fault[r]) EXCEPT
                      !.round = @ + 1, !.sending = TRUE, !.error = FALSE])
    /\ fault' = [fault EXCEPT ![r] = FALSE]
    /\ cancel' = [cancel EXCEPT ![r] = TRUE]
    /\ place' = [place EXCEPT ![r] = "waiting"]
    /\ UNCHANGED <<registered, calling, killed, row>>

(* The upstream call failed.  It counts as aborted when the cause of its   *)
(* context is a plain cancellation: an interruption or a client that left. *)
RoundFailed(r, left, aborted) ==
    /\ place[r] = "waiting"
    /\ aborted => left \/ r \in killed
    /\ Publish(r, Ended(state[r], TRUE, aborted))
    /\ fault' = [fault EXCEPT ![r] = ~aborted]
    /\ cancel' = [cancel EXCEPT ![r] = FALSE]
    /\ place' = [place EXCEPT ![r] = IF left THEN "left" ELSE "idle"]
    /\ killed' = killed \ {r}
    /\ UNCHANGED <<registered, calling, row>>

RoundAnswered(r) ==
    /\ place[r] = "waiting"
    /\ Publish(r, Ended(state[r], FALSE, FALSE))
    /\ fault' = [fault EXCEPT ![r] = FALSE]
    /\ cancel' = [cancel EXCEPT ![r] = FALSE]
    /\ place' = [place EXCEPT ![r] = "answered"]
    /\ killed' = IF r \in Streaming THEN killed ELSE killed \ {r}
    /\ UNCHANGED <<registered, calling, row>>

(* A stream reports the model after its last frame, a plain response       *)
(* before it is written.                                                   *)
RecordReportedModel(r) ==
    /\ \/ r \in Streaming /\ place[r] \in {"answered", "writing"}
             /\ place' = [place EXCEPT ![r] = "written"]
       \/ r \notin Streaming /\ place[r] = "answered"
             /\ place' = [place EXCEPT ![r] = "ready"]
    /\ Publish(r, [state[r] EXCEPT !.reported = TRUE])
    /\ killed' = killed \ {r}
    /\ UNCHANGED <<cancel, fault, registered, calling, row>>

MarkCommitted(r) ==
    /\ place[r] = IF r \in Streaming THEN "answered" ELSE "ready"
    /\ Publish(r, [state[r] EXCEPT !.status = "committed"])
    /\ place' = [place EXCEPT ![r] = "writing"]
    /\ UNCHANGED <<cancel, fault, registered, calling, killed, row>>

(* The response is out, or what was sent of it. *)
Delivered(r) == place[r] = IF r \in Streaming THEN "written" ELSE "writing"

MarkSucceeded(r) ==
    /\ Delivered(r) /\ state[r].status = "committed"
    /\ FinishLocked(r, [state[r] EXCEPT !.status = "success",
                                        !.error = FALSE, !.stop = "completed"])

(* A failure after the last frame of a stream has no reason of its own. *)
MarkFailed(r) ==
    /\ place[r] = "idle" \/ Delivered(r)
    /\ FinishLocked(r, [state[r] EXCEPT
            !.status = "failed", !.error = TRUE,
            !.stop = IF r \in Streaming /\ Delivered(r) THEN "unrecorded" ELSE "rule"])

(* The client left: during a round, a back-off, or the response. *)
MarkCanceled(r) ==
    /\ place[r] \in {"idle", "left"} \/ Delivered(r)
    /\ FinishLocked(r, [state[r] EXCEPT !.status = "canceled",
                                        !.error = TRUE, !.stop = "client"])

-----------------------------------------------------------------------------
(* The log page.                                                           *)

(* Interrupt, up to the unlock.  The page names the round it shows; any    *)
(* other round than the latest is left alone.                              *)
Interrupt(a, r) ==
    /\ calling[a] = NoCall
    /\ r \in registered /\ cancel[r]
    /\ cancel' = [cancel EXCEPT ![r] = FALSE]
    /\ calling' = [calling EXCEPT ![a] = Round(r)]
    /\ UNCHANGED <<state, fault, registered, place, killed, page, row>>

(* Its cancel(): the context of a round that is over is dead already. *)
CancelRound(a) ==
    /\ calling[a] # NoCall
    /\ killed' = killed \cup {r \in Request : calling[a] = Round(r) /\ InUse(r)}
    /\ calling' = [calling EXCEPT ![a] = NoCall]
    /\ UNCHANGED <<state, cancel, fault, registered, place, page, row>>

Clear ==
    /\ registered' = {r \in registered : Live(state[r])}
    /\ UNCHANGED <<state, cancel, fault, place, calling, killed, page, row>>

OpenRequestStream(w) ==
    /\ ~page[w].open
    /\ page' = [page EXCEPT ![w] =
            [open  |-> TRUE,
             shown |-> [r \in Request |-> IF r \in registered THEN state[r] ELSE Unborn],
             queue |-> <<>>]]
    /\ UNCHANGED <<state, cancel, fault, registered, place, calling, killed, row>>

CloseRequestStream(w) ==
    /\ page[w].open
    /\ page' = [page EXCEPT ![w] = Offline]
    /\ UNCHANGED <<state, cancel, fault, registered, place, calling, killed, row>>

(* streamOverview sends the next update. *)
Receive(w) ==
    /\ page[w].queue # <<>>
    /\ LET update == Head(page[w].queue) IN
       page' = [page EXCEPT ![w].shown[update[1]] = update[2], ![w].queue = Tail(@)]
    /\ UNCHANGED <<state, cancel, fault, registered, place, calling, killed, row>>

-----------------------------------------------------------------------------
RegistryInit ==
    /\ state = [r \in Request |-> Unborn]
    /\ cancel = [r \in Request |-> FALSE]
    /\ fault = [r \in Request |-> FALSE]
    /\ registered = {}
    /\ place = [r \in Request |-> "new"]
    /\ calling = [a \in Admin |-> NoCall]
    /\ killed = {}
    /\ page = [w \in Page |-> Offline]
    /\ row = [r \in Request |-> Unborn]

Forward(r) ==
    \/ NewRequestState(r) \/ StartRound(r)
    \/ \E left, aborted \in BOOLEAN : RoundFailed(r, left, aborted)
    \/ RoundAnswered(r) \/ RecordReportedModel(r) \/ MarkCommitted(r)
    \/ MarkSucceeded(r) \/ MarkFailed(r) \/ MarkCanceled(r)

RegistryNext ==
    \/ \E r \in Request : Forward(r)
    \/ \E a \in Admin, r \in Request : Interrupt(a, r)
    \/ \E a \in Admin : CancelRound(a)
    \/ Clear
    \/ \E w \in Page : OpenRequestStream(w) \/ CloseRequestStream(w) \/ Receive(w)

RegistrySpec == RegistryInit /\ [][RegistryNext]_registryVars

-----------------------------------------------------------------------------
(* Properties.                                                             *)

RequestState ==
    [status    : {"none", "running", "committed", "success", "failed", "canceled"},
     round     : Nat,
     sending   : BOOLEAN,
     error     : BOOLEAN,
     reported  : BOOLEAN,
     stop      : {"", "completed", "rule", "unrecorded", "client"},
     chain     : Seq([round : Nat, fault : BOOLEAN]),
     truncated : BOOLEAN]

(* Every variable has its shape; no chain or queue outgrows its limit.     *)
RegistryTypeOK ==
    /\ state \in [Request -> RequestState]
    /\ \A r \in Request : Len(state[r].chain) <= DetailMax
    /\ cancel \in [Request -> BOOLEAN]
    /\ fault \in [Request -> BOOLEAN]
    /\ registered \subseteq Request
    /\ place \in [Request -> {"new", "idle", "waiting", "left", "answered", "ready",
                              "writing", "written", "returned"}]
    /\ calling \in [Admin -> Request \X Nat \cup {NoCall}]
    /\ killed \subseteq Request
    /\ \A w \in Page :
          /\ page[w].open \in BOOLEAN
          /\ page[w].shown \in [Request -> RequestState]
          /\ Len(page[w].queue) <= StreamBuffer
    /\ row \in [Request -> RequestState]

(* The attempts on a request's chain, with the one under way, are exactly  *)
(* its rounds in order, each once; past the limit the newest remain and    *)
(* the cut is marked.                                                      *)
EveryAttemptOnChain ==
    \A r \in Request :
        LET s == state[r]
            ended == IF Live(s) /\ s.round > 0 THEN s.round - 1 ELSE s.round
            n == Len(s.chain)
        IN /\ n = IF ended > DetailMax THEN DetailMax ELSE ended
           /\ \A k \in 1..n : s.chain[k].round = ended - n + k
           /\ s.truncated <=> ended > DetailMax

(* What the rankings count as in flight on a member is what is waiting for *)
(* it: neither an interruption nor any way to end leaves a request busy.   *)
BusyIsExact ==
    {r \in registered : state[r].sending} = {r \in Request : place[r] = "waiting"}

(* The bounded history and Clear never drop a request that still runs, so  *)
(* it can be seen and interrupted until it ends.                           *)
LiveIsListed ==
    /\ \A r \in Request : Live(state[r]) => r \in registered
    /\ Cardinality({r \in registered : Done(state[r])}) <= MaxFinished

Updates(w, r) == {k \in DOMAIN page[w].queue : page[w].queue[k][1] = r}

(* A connection that is open has missed nothing: the newest update that    *)
(* waits for a request, or else what was shown of it, is the registry's.   *)
PagesMissNothing ==
    \A w \in Page, r \in registered :
        page[w].open =>
            IF Updates(w, r) = {} THEN page[w].shown[r] = state[r]
            ELSE \E k \in Updates(w, r) :
                    page[w].queue[k][2] = state[r] /\ \A j \in Updates(w, r) : j <= k

(* The row of a finished request is the request as it ended, with the      *)
(* reason it stopped; nothing is written to it afterwards.                 *)
RowsAreFinal ==
    \A r \in Request :
        IF Done(state[r]) THEN row[r] = state[r] /\ row[r].stop # ""
        ELSE row[r] = Unborn

(* An interruption ends a round that is waiting for its upstream, never a  *)
(* stream that is being forwarded.                                         *)
InterruptsWaitingOnly ==
    \A r \in Streaming : place[r] = "writing" => r \notin killed
=============================================================================
