------------------------------ MODULE Approval ------------------------------
(***************************************************************************)
(* Human approvals (src/internal/gateway/approval and the approve and deny *)
(* commands of src/internal/cli).  A request is one JSON file that its     *)
(* requester wrote.  A human is shown the record, types the approver       *)
(* passphrase, and the decision is signed and written back.  A verifier    *)
(* accepts a signed approval once: it creates the marker <token>.used.     *)
(*                                                                         *)
(* No lock is taken anywhere: every change reads the record, computes, and *)
(* replaces the file through one temporary name per request.               *)
(***************************************************************************)
EXTENDS Integers, FiniteSets

CONSTANTS
    Thread,     \* processes: commands, the sweep, verifiers
    Request,    \* approval tokens
    Content,    \* what a request asks for: actor, capability, connection, hash
    Key,        \* approver keys
    MaxTime,    \* bound: the clock runs from 0 to MaxTime
    DefaultTTL, \* the TTL of a request that names none
    MaxTTL,     \* MaxTTL
    UseWindow,  \* UseWindow
    None        \* no request, no key, no content

ASSUME TimeAssumption ==
    /\ MaxTime \in Nat /\ MaxTTL \in Nat /\ UseWindow \in Nat
    /\ DefaultTTL \in Nat
ASSUME NoneAssumption == None \notin Request \cup Content \cup Key

Time   == 0..MaxTime
Status == {"absent", "pending", "approved", "denied", "expired"}

\* A record file: its fields, and its signature as the key and the fields that
\* were signed (decisionMessage covers them all).
Fields   == [content : Content \cup {None}, status : Status, created : Time,
             expires : 0..(MaxTime + MaxTTL + 1), decided : Time]
Record   == [fields : Fields, key : Key \cup {None}, signed : Fields]
NoFields == [content |-> None, status |-> "absent", created |-> 0, expires |-> 0, decided |-> 0]
NoRecord == [fields |-> NoFields, key |-> None, signed |-> NoFields]

PC == {"idle",
       "shown",    \* approve, deny: the human has seen the record
       "listed",   \* deny --all: the human has seen how many there are
       "loop",     \* deny --all: between two requests
       "decide",   \* the approver key is unlocked
       "write",    \* has read the record and changed its copy
       "rename",   \* has written <token>.json.tmp
       "consume"}  \* Verify: every check has passed

VARIABLES
    rec,       \* rec[r]: <token>.json
    tmp,       \* tmp[r]: <token>.json.tmp, NoRecord where there is none
    used,      \* requests with a <token>.used marker
    pub,       \* the key behind approver.json, or None
    now,       \* the clock
    pc,        \* pc[th]
    req,       \* req[th]: the request th works on, or None
    op,        \* op[th]: the status th is to write, "absent" outside a decision
    shown,     \* shown[th]: the record the human saw
    key,       \* key[th]: the key th has unlocked
    copy,      \* copy[th]: the record th is about to write
    todo,      \* todo[th]: deny --all: requests still to deny
    listed,    \* listed[th]: deny --all: the records that Pending returned
    agreed,    \* history: agreed[r]: contents a human saw and approved
    served,    \* history: served[r]: contents that Verify accepted
    accepts    \* history: accepts[r]: how often Verify accepted

fileVars == <<rec, tmp, used, pub, now>>
callVars == <<pc, req, op, shown, key, copy, todo, listed>>
histVars == <<agreed, served, accepts>>
vars == <<fileVars, callVars, histVars>>

Init ==
    /\ rec = [r \in Request |-> NoRecord] /\ tmp = [r \in Request |-> NoRecord]
    /\ used = {} /\ pub = None /\ now = 0
    /\ pc = [th \in Thread |-> "idle"] /\ req = [th \in Thread |-> None]
    /\ op = [th \in Thread |-> "absent"]
    /\ shown = [th \in Thread |-> NoRecord] /\ key = [th \in Thread |-> None]
    /\ copy = [th \in Thread |-> NoRecord]
    /\ todo = [th \in Thread |-> {}]
    /\ listed = [th \in Thread |-> [r \in Request |-> NoRecord]]
    /\ agreed = [r \in Request |-> {}]
    /\ served = [r \in Request |-> {}] /\ accepts = [r \in Request |-> 0]

-----------------------------------------------------------------------------
\* The requester and the clock

\* The TTL of a new request: the default for none, and never above MaxTTL.
TTL(ttl) ==
    LET asked == IF ttl <= 0 THEN DefaultTTL ELSE ttl
    IN  IF asked <= MaxTTL THEN asked ELSE MaxTTL

\* RequestNew: a fresh token, so that nobody else writes this file yet.
RequestNew(r, c, ttl) ==
    /\ rec[r] = NoRecord
    /\ rec' = [rec EXCEPT ![r].fields = [content |-> c, status |-> "pending", created |-> now,
                                         expires |-> now + TTL(ttl), decided |-> 0]]
    /\ UNCHANGED <<tmp, used, pub, now, callVars, histVars>>

\* The requester owns the file and may write other contents, or a later expiry,
\* into it at any time.  It has no key.
RequesterEdits(r, c, e) ==
    /\ rec[r].fields.status # "absent"
    /\ rec' = [rec EXCEPT ![r].fields = [@ EXCEPT !.content = c, !.expires = e]]
    /\ UNCHANGED <<tmp, used, pub, now, callVars, histVars>>

Tick ==
    /\ now < MaxTime
    /\ now' = now + 1
    /\ UNCHANGED <<rec, tmp, used, pub, callVars, histVars>>

\* approve init: a new approver key, saved through a temporary file of its own.
ChangeKey(k) ==
    /\ k # pub
    /\ pub' = k
    /\ UNCHANGED <<rec, tmp, used, now, callVars, histVars>>

-----------------------------------------------------------------------------
\* Deciding: keylatch approve, keylatch deny, keylatch deny --all

\* The record is pending and its time is not up.
Open(f) == f.status = "pending" /\ ~(f.expires < now)

\* Get and undecided: the record is shown to the human.
Show(th, r, d) ==
    /\ pc[th] = "idle" /\ Open(rec[r].fields)
    /\ pc'    = [pc    EXCEPT ![th] = "shown"]
    /\ req'   = [req   EXCEPT ![th] = r]
    /\ op'    = [op    EXCEPT ![th] = d]
    /\ shown' = [shown EXCEPT ![th] = rec[r]]
    /\ UNCHANGED <<fileVars, key, copy, todo, listed, histVars>>

\* deny --all: Pending lists the open requests.
ListAll(th) ==
    /\ pc[th] = "idle"
    /\ \E r \in Request : Open(rec[r].fields)
    /\ pc'     = [pc     EXCEPT ![th] = "listed"]
    /\ todo'   = [todo   EXCEPT ![th] = {r \in Request : Open(rec[r].fields)}]
    /\ listed' = [listed EXCEPT ![th] = rec]
    /\ UNCHANGED <<fileVars, req, op, shown, key, copy, histVars>>

\* unlockApprover: the human types the passphrase of the current key.
Unlock(th) ==
    /\ pc[th] \in {"shown", "listed"} /\ pub # None
    /\ key' = [key EXCEPT ![th] = pub]
    /\ pc'  = [pc  EXCEPT ![th] = IF pc[th] = "shown" THEN "decide" ELSE "loop"]
    /\ UNCHANGED <<fileVars, req, op, shown, copy, todo, listed, histVars>>

\* deny --all: the next request of the list.
DenyNext(th, r) ==
    /\ pc[th] = "loop" /\ r \in todo[th]
    /\ pc'    = [pc    EXCEPT ![th] = "decide"]
    /\ req'   = [req   EXCEPT ![th] = r]
    /\ op'    = [op    EXCEPT ![th] = "denied"]
    /\ shown' = [shown EXCEPT ![th] = listed[th][r]]
    /\ todo'  = [todo  EXCEPT ![th] = @ \ {r}]
    /\ UNCHANGED <<fileVars, key, copy, listed, histVars>>

\* A decision, a sweep or a verification returns; deny --all goes on with its
\* list if the result is one that it tolerates.
Return(th, tolerated) ==
    LET goOn == tolerated /\ todo[th] # {}
    IN  /\ pc'     = [pc     EXCEPT ![th] = IF goOn THEN "loop" ELSE "idle"]
        /\ req'    = [req    EXCEPT ![th] = None]
        /\ op'     = [op     EXCEPT ![th] = "absent"]
        /\ shown'  = [shown  EXCEPT ![th] = NoRecord]
        /\ copy'   = [copy   EXCEPT ![th] = NoRecord]
        /\ key'    = [key    EXCEPT ![th] = IF goOn THEN @ ELSE None]
        /\ todo'   = [todo   EXCEPT ![th] = IF goOn THEN @ ELSE {}]
        /\ listed' = [listed EXCEPT ![th] = IF goOn THEN @ ELSE [r \in Request |-> NoRecord]]

\* What decide answers, in the order of its checks.
Answer(th) ==
    LET f == rec[req[th]].fields
    IN  IF f.status = "absent" THEN "ErrNotFound"
        ELSE IF rec[req[th]] # shown[th] THEN "ErrChanged"
        ELSE IF f.status \in {"approved", "denied"} THEN "ErrAlreadyActed"
        ELSE IF ~Open(f) THEN "ErrExpiredTTL"
        ELSE IF f.expires - f.created > MaxTTL THEN "ErrTTLTooLong"
        ELSE "ok"

\* decide up to the write: the decision, its time and its signature.
DecideLoad(th) ==
    LET f == [rec[req[th]].fields EXCEPT !.status = op[th], !.decided = now]
    IN  /\ pc[th] = "decide" /\ Answer(th) = "ok"
        /\ copy' = [copy EXCEPT ![th] = [fields |-> f, key |-> key[th], signed |-> f]]
        /\ agreed' = IF op[th] = "approved"
                     THEN [agreed EXCEPT ![req[th]] = @ \cup {shown[th].fields.content}] ELSE agreed
        /\ pc' = [pc EXCEPT ![th] = "write"]
        /\ UNCHANGED <<fileVars, req, op, shown, key, todo, listed, served, accepts>>

\* decide refuses.  deny --all skips what is already decided, expired or gone.
DecideRefuse(th) ==
    /\ pc[th] = "decide" /\ Answer(th) # "ok"
    /\ Return(th, Answer(th) \in {"ErrAlreadyActed", "ErrExpiredTTL", "ErrNotFound"})
    /\ UNCHANGED <<fileVars, histVars>>

\* The human declines or walks away, or the passphrase is wrong.
GiveUp(th) ==
    /\ pc[th] \in {"shown", "listed"}
    /\ Return(th, FALSE)
    /\ UNCHANGED <<fileVars, histVars>>

-----------------------------------------------------------------------------
\* ExpireOldPending

\* One request of the sweep: pending and past its time.
SweepLoad(th, r) ==
    /\ pc[th] = "idle"
    /\ rec[r].fields.status = "pending" /\ rec[r].fields.expires < now
    /\ copy' = [copy EXCEPT ![th] = [rec[r] EXCEPT !.fields.status = "expired"]]
    /\ req'  = [req EXCEPT ![th] = r]
    /\ pc'   = [pc EXCEPT ![th] = "write"]
    /\ UNCHANGED <<fileVars, op, shown, key, todo, listed, histVars>>

-----------------------------------------------------------------------------
\* writeApproval

WriteTmp(th) ==
    /\ pc[th] = "write"
    /\ tmp' = [tmp EXCEPT ![req[th]] = copy[th]]
    /\ pc'  = [pc EXCEPT ![th] = "rename"]
    /\ UNCHANGED <<rec, used, pub, now, req, op, shown, key, copy, todo, listed, histVars>>

\* The rename takes whatever the temporary name now holds.
Rename(th) ==
    LET r == req[th]
    IN  /\ pc[th] = "rename" /\ tmp[r] # NoRecord
        /\ rec' = [rec EXCEPT ![r] = tmp[r]]
        /\ tmp' = [tmp EXCEPT ![r] = NoRecord]
        /\ Return(th, TRUE)
        /\ UNCHANGED <<used, pub, now, agreed, served, accepts>>

\* The write or the rename fails; a failed rename removes the temporary file.
WriteFails(th) ==
    /\ pc[th] \in {"write", "rename"}
    /\ tmp' = IF pc[th] = "rename" THEN [tmp EXCEPT ![req[th]] = NoRecord] ELSE tmp
    /\ Return(th, FALSE)
    /\ UNCHANGED <<rec, used, pub, now, histVars>>

-----------------------------------------------------------------------------
\* Verify

\* signatureValid: made with the approver key over exactly these fields.
SignatureValid(x) == x.key # None /\ x.key = pub /\ x.signed = x.fields

\* Verify up to consume; the verifier's request is of content c.
Verify(th, r, c) ==
    LET f == rec[r].fields
    IN  /\ pc[th] = "idle"
        /\ SignatureValid(rec[r])
        /\ ~(f.expires < now)
        /\ f.status = "approved"
        /\ f.content = c
        /\ f.decided <= now /\ now - f.decided <= UseWindow
        /\ pc'  = [pc EXCEPT ![th] = "consume"]
        /\ req' = [req EXCEPT ![th] = r]
        /\ copy' = [copy EXCEPT ![th] = rec[r]]
        /\ UNCHANGED <<fileVars, op, shown, key, todo, listed, histVars>>

\* Slip: the marker is created without O_EXCL.
MarkerFreeAlways(r) == TRUE

\* O_CREATE|O_EXCL succeeds only without a marker.
MarkerFree(r) == r \notin used

\* consume: the marker is created, Verify accepts ...
Consume(th) ==
    LET r == req[th]
    IN  /\ pc[th] = "consume" /\ MarkerFree(r)
        /\ used' = used \cup {r}
        /\ served'  = [served EXCEPT ![r] = @ \cup {copy[th].fields.content}]
        /\ accepts' = [accepts EXCEPT ![r] = @ + 1]
        /\ Return(th, FALSE)
        /\ UNCHANGED <<rec, tmp, pub, now, agreed>>

\* ... or exists already (ErrUsed), or cannot be written.
ConsumeRefuse(th) ==
    /\ pc[th] = "consume"
    /\ Return(th, FALSE)
    /\ UNCHANGED <<fileVars, histVars>>

-----------------------------------------------------------------------------
Next ==
    \/ \E r \in Request, c \in Content, ttl \in {0, MaxTTL + 2} : RequestNew(r, c, ttl)
    \/ \E r \in Request, c \in Content :
          \/ RequesterEdits(r, c, rec[r].fields.expires)
          \/ RequesterEdits(r, c, MaxTime + MaxTTL + 1)
    \/ Tick
    \/ \E k \in Key : ChangeKey(k)
    \/ \E th \in Thread :
          \/ \E r \in Request, d \in {"approved", "denied"} : Show(th, r, d)
          \/ ListAll(th) \/ Unlock(th)
          \/ \E r \in Request : DenyNext(th, r)
          \/ DecideLoad(th) \/ DecideRefuse(th) \/ GiveUp(th)
          \/ \E r \in Request : SweepLoad(th, r)
          \/ WriteTmp(th) \/ Rename(th) \/ WriteFails(th)
          \/ \E r \in Request, c \in Content : Verify(th, r, c)
          \/ Consume(th) \/ ConsumeRefuse(th)

Spec == Init /\ [][Next]_vars

-----------------------------------------------------------------------------
\* Properties

TypeOK ==
    /\ rec \in [Request -> Record] /\ tmp \in [Request -> Record]
    /\ used \subseteq Request /\ pub \in Key \cup {None} /\ now \in Time
    /\ pc \in [Thread -> PC] /\ req \in [Thread -> Request \cup {None}]
    /\ \A th \in Thread : pc[th] \notin {"idle", "listed", "loop"} => req[th] \in Request
    /\ op \in [Thread -> Status]
    /\ shown \in [Thread -> Record] /\ copy \in [Thread -> Record]
    /\ key \in [Thread -> Key \cup {None}]
    /\ todo \in [Thread -> SUBSET Request]
    /\ listed \in [Thread -> [Request -> Record]]
    /\ agreed \in [Request -> SUBSET (Content \cup {None})]
    /\ served \in [Request -> SUBSET (Content \cup {None})]
    /\ accepts \in [Request -> Nat]

\* An approval is used at most once, however many verifiers read it before the
\* first of them creates the marker.
SingleUse == \A r \in Request : accepts[r] <= 1

\* What Verify accepts is what a human was shown and approved, although the
\* requester can rewrite the file before, during and after the decision.
ServedWasShown == \A r \in Request : served[r] \subseteq agreed[r]

\* The inductive strengthening of SingleUse: what was accepted has a marker.
UsedInv == \A r \in Request : accepts[r] = 0 \/ (accepts[r] = 1 /\ r \in used)

\* A signed approval of r is of a content that a human agreed to.
Honest(x, r) == x.key # None /\ x.signed.status = "approved" => x.signed.content \in agreed[r]

\* The inductive strengthening of ServedWasShown: every signature, in a file, in
\* a temporary file or about to be written, was made on what a human agreed to.
SignedInv ==
    /\ \A r \in Request : Honest(rec[r], r) /\ Honest(tmp[r], r)
    /\ \A th \in Thread :
          pc[th] \in {"write", "rename"} => req[th] \in Request /\ Honest(copy[th], req[th])
    /\ \A th \in Thread :
          pc[th] = "consume" => /\ req[th] \in Request
                               /\ copy[th].fields.content \in agreed[req[th]]

-----------------------------------------------------------------------------
\* The promise that all this implements

C == INSTANCE Consent WITH Requests <- Request, Contents <- Content \cup {None},
                           consent <- agreed, times <- accepts, given <- served

\* Files that anybody rewrites, decisions that race, markers and a clock behave
\* like Consent: a decision is an agreement to what was shown, an accepted
\* Verify spends the request, every other step is invisible.
ImplementsConsent == C!ConsentSpec
=============================================================================
