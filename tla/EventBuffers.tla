--------------------------- MODULE EventBuffers ----------------------------
(***************************************************************************)
(* The bounded buffers between those who produce events and those who read  *)
(* them: the exporter of audit events, the receipts ring with its streams,  *)
(* and the sidecar's multiplexer.  They share no state.                     *)
(***************************************************************************)
EXTENDS Naturals, FiniteSets, Sequences, SequencesExt

(***************************************************************************)
(* The exporter of audit events (internal/team/audit/export): callers put     *)
(* events in a bounded buffer and never wait; a background goroutine and any  *)
(* number of Flush calls take them out and send them.                         *)
(***************************************************************************)

CONSTANTS SxEvent,   \* events, each exported once
          SxSender,  \* the background goroutine and Flush calls
          SxBuffer   \* capacity of the buffer (1000 in the code)

ASSUME SxAssumption == SxBuffer \in Nat

VARIABLES sxBuf,      \* the buffer
          sxExported, \* events handed to Export
          sxDropped,  \* the counter of dropped events
          sxSending,  \* sender -> the event it sends, <<>> when it has none
          sxTried,    \* events a request was made for, with how often
          sxUp        \* senders at work

sxVars == <<sxBuf, sxExported, sxDropped, sxSending, sxTried, sxUp>>

SxInit == /\ sxBuf = <<>> /\ sxExported = {} /\ sxDropped = 0 /\ sxUp = {}
          /\ sxSending = [s \in SxSender |-> <<>>] /\ sxTried = <<>>

\* Export: a full buffer drops the new event and counts it.
ExportEvictsOldest(e) ==
    /\ e \notin sxExported /\ sxExported' = sxExported \cup {e}
    /\ sxBuf' = Append(IF Len(sxBuf) < SxBuffer THEN sxBuf ELSE Tail(sxBuf), e)
    /\ UNCHANGED <<sxDropped, sxSending, sxTried, sxUp>>
Export(e) ==
    /\ e \notin sxExported /\ sxExported' = sxExported \cup {e}
    /\ IF Len(sxBuf) < SxBuffer THEN sxBuf' = Append(sxBuf, e) /\ UNCHANGED sxDropped
       ELSE sxDropped' = sxDropped + 1 /\ UNCHANGED sxBuf
    /\ UNCHANGED <<sxSending, sxTried, sxUp>>

SenderStart(s) ==
    /\ s \notin sxUp /\ sxUp' = sxUp \cup {s}
    /\ UNCHANGED <<sxBuf, sxExported, sxDropped, sxSending, sxTried>>

Take(s) ==
    /\ s \in sxUp /\ sxSending[s] = <<>> /\ sxBuf # <<>>
    /\ sxSending' = [sxSending EXCEPT ![s] = <<Head(sxBuf)>>] /\ sxBuf' = Tail(sxBuf)
    /\ UNCHANGED <<sxExported, sxDropped, sxTried, sxUp>>

\* send makes one request; an error is not reported and not tried again.
Send(s) ==
    /\ sxSending[s] # <<>>
    /\ sxTried' = sxTried \o sxSending[s] /\ sxSending' = [sxSending EXCEPT ![s] = <<>>]
    /\ UNCHANGED <<sxBuf, sxExported, sxDropped, sxUp>>

\* Flush ends when the buffer is empty; both end between events when their context does.
SenderEnds(s) ==
    /\ s \in sxUp /\ sxSending[s] = <<>> /\ sxUp' = sxUp \ {s}
    /\ UNCHANGED <<sxBuf, sxExported, sxDropped, sxSending, sxTried>>

SxNext == \/ \E e \in SxEvent : Export(e)
          \/ \E s \in SxSender : SenderStart(s) \/ Take(s) \/ Send(s) \/ SenderEnds(s)
-----------------------------------------------------------------------------
\* Every exported event is waiting, being sent, tried once or counted as dropped:
\* the loop and the flushes together neither lose nor repeat one, and the dropped
\* counter is exact.
ExportAccounted ==
    LET held == Len(sxBuf) + Cardinality({s \in SxSender : sxSending[s] # <<>>}) + Len(sxTried)
    IN  /\ held + sxDropped = Cardinality(sxExported)
        /\ Cardinality(Range(sxTried)) = Len(sxTried)

-----------------------------------------------------------------------------
(***************************************************************************)
(* The receipts ring and its subscribers behind /v1/receipts and            *)
(* /v1/receipts/stream (internal/ui/api/receipts.go).  The bus of           *)
(* approvals_sse.go is the same hub without a ring.                         *)
(***************************************************************************)

CONSTANTS EsSub,      \* subscribers
          EsCap,      \* size of the receipts ring
          EsBuf,      \* buffer of a subscriber (8)
          EsMaxPush   \* bound: receipts pushed

VARIABLES esRing, esNext, esIn, esChan, esGot, esFrom, esLost
esVars == <<esRing, esNext, esIn, esChan, esGot, esFrom, esLost>>

ASSUME EsBounds == EsCap \in Nat \ {0} /\ EsBuf \in Nat \ {0}

\* Receipts are numbered.  esFrom and esLost, for the property only: the first
\* receipt after the subscription, and whether the buffer was ever full.
EsInit == /\ esRing = <<>> /\ esNext = 1 /\ esIn = {}
          /\ esChan = [s \in EsSub |-> <<>>] /\ esGot = [s \in EsSub |-> <<>>]
          /\ esFrom = [s \in EsSub |-> 0] /\ esLost = [s \in EsSub |-> FALSE]

\* The ring and every buffer are filled under one lock, and nobody is waited for.
RingAfter(r) == IF Len(esRing) >= EsCap THEN Append(Tail(esRing), r) ELSE Append(esRing, r)
Offer(s, r) == IF Len(esChan[s]) < EsBuf THEN Append(esChan[s], r) ELSE esChan[s]
Push == /\ esNext <= EsMaxPush /\ esNext' = esNext + 1
        /\ esRing' = RingAfter(esNext)
        /\ esChan' = [s \in EsSub |-> IF s \in esIn THEN Offer(s, esNext) ELSE esChan[s]]
        /\ esLost' = [s \in EsSub |-> esLost[s] \/ (s \in esIn /\ Len(esChan[s]) = EsBuf)]
        /\ UNCHANGED <<esIn, esGot, esFrom>>
Subscribe(s) ==
    /\ s \notin esIn /\ esIn' = esIn \cup {s}
    /\ esChan' = [esChan EXCEPT ![s] = <<>>] /\ esGot' = [esGot EXCEPT ![s] = <<>>]
    /\ esFrom' = [esFrom EXCEPT ![s] = esNext] /\ esLost' = [esLost EXCEPT ![s] = FALSE]
    /\ UNCHANGED <<esRing, esNext>>
\* One turn of the stream handler's loop; the heartbeat changes nothing.
StreamEvent(s) ==
    /\ s \in esIn /\ esChan[s] # <<>>
    /\ esGot' = [esGot EXCEPT ![s] = Append(@, Head(esChan[s]))]
    /\ esChan' = [esChan EXCEPT ![s] = Tail(@)]
    /\ UNCHANGED <<esRing, esNext, esIn, esFrom, esLost>>
Unsubscribe(s) ==
    /\ s \in esIn /\ esIn' = esIn \ {s} /\ esChan' = [esChan EXCEPT ![s] = <<>>]
    /\ UNCHANGED <<esRing, esNext, esGot, esFrom, esLost>>

EsNext == \/ Push
          \/ \E s \in EsSub : Subscribe(s) \/ StreamEvent(s) \/ Unsubscribe(s)

\* A page shows the last receipts of the ring, and a stream that was never
\* full gets every receipt pushed since it subscribed, once and in order;
\* a full one loses the newest, never one that waits (receipts.go:41).
StreamWhole ==
    /\ esRing = [i \in 1 .. Len(esRing) |-> esNext - 1 - Len(esRing) + i]
    /\ Len(esRing) = IF esNext - 1 < EsCap THEN esNext - 1 ELSE EsCap
    /\ \A s \in esIn : LET all == esGot[s] \o esChan[s] IN
         /\ \A i \in 1 .. Len(all) - 1 : all[i] < all[i + 1]
         /\ \A i \in 1 .. EsBuf : i <= esNext - esFrom[s] => i <= Len(all) /\ all[i] = esFrom[s] + i - 1
         /\ ~esLost[s] => Len(all) = esNext - esFrom[s]

-----------------------------------------------------------------------------
(***************************************************************************)
(* The desktop sidecar's event multiplexer (internal/sidecar/events/mux.go) *)
(* with the adapters that publish into it.  Publish holds the lock for      *)
(* reading, so several publishers fill one buffer at once, while Subscribe, *)
(* Unsubscribe and Stop wait for all of them; readers take no lock.         *)
(***************************************************************************)

CONSTANTS MxSub,      \* subscribers
          MxPub,      \* the adapters' goroutines
          MxBuf,      \* buffer of a subscriber (8)
          MxMaxPub    \* bound: events each adapter publishes

ASSUME MxAssumption == MxBuf \in Nat

VARIABLES mxIn, mxOpen, mxChan, mxGot, mxAt, mxEv, mxLeft, mxStopped, mxPanic
mxVars == <<mxIn, mxOpen, mxChan, mxGot, mxAt, mxEv, mxLeft, mxStopped, mxPanic>>

\* An event is <<publisher, number>>.  mxIn: the registered subscribers; mxOpen:
\* those whose channel is open.
MxInit == /\ mxIn = {} /\ mxOpen = {} /\ mxChan = [s \in MxSub |-> <<>>]
          /\ mxGot = [s \in MxSub |-> <<>>]
          /\ mxAt = [p \in MxPub |-> "idle"] /\ mxEv = [p \in MxPub |-> 0]
          /\ mxLeft = [p \in MxPub |-> {}] /\ mxStopped = FALSE /\ mxPanic = FALSE

MxReaders == {p \in MxPub : mxAt[p] # "idle"}
\* Every subscription has a channel of its own: a subscriber comes once.
MuxSubscribe(s) ==
    /\ s \notin mxIn \cup mxOpen /\ MxReaders = {} /\ mxGot[s] = <<>>
    /\ mxIn' = mxIn \cup {s} /\ mxOpen' = mxOpen \cup {s}
    /\ UNCHANGED <<mxChan, mxGot, mxAt, mxEv, mxLeft, mxStopped, mxPanic>>
\* Closing a channel that is closed already panics.
MuxUnsubscribe(s) ==
    /\ MxReaders = {} /\ s \in mxIn
    /\ mxIn' = mxIn \ {s} /\ mxOpen' = mxOpen \ {s}
    /\ mxPanic' = (mxPanic \/ s \notin mxOpen)
    /\ UNCHANGED <<mxChan, mxGot, mxAt, mxEv, mxLeft, mxStopped>>
MuxStop ==
    /\ ~mxStopped /\ MxReaders = {} /\ mxStopped' = TRUE
    /\ mxIn' = {} /\ mxOpen' = mxOpen \ mxIn
    /\ mxPanic' = (mxPanic \/ ~(mxIn \subseteq mxOpen))
    /\ UNCHANGED <<mxChan, mxGot, mxAt, mxEv, mxLeft>>

\* An adapter takes an event from its source and publishes it.
MuxBegin(p) ==
    /\ mxAt[p] = "idle" /\ mxEv[p] < MxMaxPub
    /\ mxEv' = [mxEv EXCEPT ![p] = @ + 1]
    /\ mxLeft' = [mxLeft EXCEPT ![p] = mxIn]
    /\ mxAt' = [mxAt EXCEPT ![p] = IF mxIn = {} THEN "idle" ELSE "first"]
    /\ UNCHANGED <<mxIn, mxOpen, mxChan, mxGot, mxStopped, mxPanic>>
MxNextSub(p, s) ==
    /\ mxLeft' = [mxLeft EXCEPT ![p] = @ \ {s}]
    /\ mxAt' = [mxAt EXCEPT ![p] = IF mxLeft[p] = {s} THEN "idle" ELSE "first"]
MxSend(p, s) == /\ mxChan' = [mxChan EXCEPT ![s] = Append(@, <<p, mxEv[p]>>)]
                /\ mxPanic' = (mxPanic \/ s \notin mxOpen)
MxTurn(p) == CHOOSE s \in mxLeft[p] : TRUE
\* Send; if the buffer is full drop the oldest, and send once more.
MuxFirst(p) ==
    /\ mxAt[p] = "first"
    /\ LET s == MxTurn(p) IN
         IF Len(mxChan[s]) < MxBuf THEN MxSend(p, s) /\ MxNextSub(p, s)
         ELSE mxAt' = [mxAt EXCEPT ![p] = "drain"] /\ UNCHANGED <<mxChan, mxPanic, mxLeft>>
    /\ UNCHANGED <<mxIn, mxOpen, mxGot, mxEv, mxStopped>>
MuxDrain(p) ==
    /\ mxAt[p] = "drain" /\ mxAt' = [mxAt EXCEPT ![p] = "second"]
    /\ LET s == MxTurn(p) IN
         mxChan' = [mxChan EXCEPT ![s] = IF @ = <<>> THEN @ ELSE Tail(@)]
    /\ UNCHANGED <<mxIn, mxOpen, mxGot, mxEv, mxLeft, mxStopped, mxPanic>>
MuxSecond(p) ==
    /\ mxAt[p] = "second"
    /\ LET s == MxTurn(p) IN
         /\ IF Len(mxChan[s]) < MxBuf THEN MxSend(p, s) ELSE UNCHANGED <<mxChan, mxPanic>>
         /\ MxNextSub(p, s)
    /\ UNCHANGED <<mxIn, mxOpen, mxGot, mxEv, mxStopped>>
MuxRecv(s) ==
    /\ mxChan[s] # <<>>
    /\ mxGot' = [mxGot EXCEPT ![s] = Append(@, Head(mxChan[s]))]
    /\ mxChan' = [mxChan EXCEPT ![s] = Tail(@)]
    /\ UNCHANGED <<mxIn, mxOpen, mxAt, mxEv, mxLeft, mxStopped, mxPanic>>

MxNext == \/ MuxStop
          \/ \E s \in MxSub : MuxSubscribe(s) \/ MuxUnsubscribe(s) \/ MuxRecv(s)
          \/ \E p \in MxPub : MuxBegin(p) \/ MuxFirst(p) \/ MuxDrain(p) \/ MuxSecond(p)

\* Publishers that share a buffer, a slow reader, and subscribers that come and
\* go never make the multiplexer send on or close a closed channel, overfill a
\* buffer, or hand a subscriber one publisher's events twice or out of order
\* (mux.go:57).
MuxOrder ==
    /\ ~mxPanic
    /\ \A s \in MxSub :
         LET all == mxGot[s] \o mxChan[s] IN
           /\ Len(mxChan[s]) <= MxBuf
           /\ \A i, j \in DOMAIN all : i < j /\ all[i][1] = all[j][1] => all[i][2] < all[j][2]

\* The event buffers, full ones with slow readers included: what is lost is what
\* the code says it drops, counted where it counts, nothing arrives twice or out
\* of order, and no closed channel is used.
BuffersHold == ExportAccounted /\ StreamWhole /\ MuxOrder
=============================================================================
