--------------------------- MODULE VaultIdentity ---------------------------
(***************************************************************************)
(* The vault identity, from which the key of keyring.json is derived        *)
(* (internal/crypto/kek/vault_identity.go), with the commands that create,  *)
(* move and use it: bootstrap (internal/bootstrap) and every command that   *)
(* opens the file backend (internal/backend/file/register.go).              *)
(*                                                                          *)
(* The identity is in the plaintext file, or in an item of the OS keyring   *)
(* that the reference file names.  No lock is taken: every file operation   *)
(* and every call of the OS keyring is a step, and a process may die        *)
(* between any two.                                                         *)
(***************************************************************************)
EXTENDS Naturals

CONSTANTS ViOpener,     \* processes that open the vault
          ViBooter,     \* the process that runs bootstrap
          ViMaxCmds,    \* bound: commands started
          ViItem        \* identities, and items of the OS keyring, 1..n

ASSUME ViAssumption == ViItem \subseteq Nat \ {0} /\ ViBooter \notin ViOpener

VARIABLES viFile,  \* the plaintext file: 0, an identity, or ViJunk while shredded
          viMark,  \* the marker of --insecure-file-kek
          viRef,   \* the reference file: 0 or an item
          viSlot,  \* the items of the OS keyring
          viRing,  \* the identity under which keyring.json is wrapped, 0: no file
          viNew,   \* identities and items used so far
          viCmd,   \* the commands
          viCmds,
          viGone,  \* history: identities that --force gave up
          viTorn,  \* history: a command read the file while another shredded it, or
                   \* found neither reference nor file while another moved it
          viOver   \* history: bootstrap --force ran beside another command
viVars == <<viFile, viMark, viRef, viSlot, viRing, viNew, viCmd, viCmds, viGone, viTorn, viOver>>

ViJunk == 99
ViProc == ViOpener \cup {ViBooter}
ViRest == [at |-> "idle", op |-> "open", insecure |-> FALSE, store |-> FALSE,
           inRef |-> FALSE, mig |-> FALSE, id |-> 0, acct |-> 0]
ViInit == /\ viFile = 0 /\ viMark = FALSE /\ viRef = 0 /\ viSlot = [i \in ViItem |-> 0]
          /\ viRing = 0 /\ viNew = 0 /\ viCmd = [p \in ViProc |-> ViRest] /\ viCmds = 0
          /\ viGone = {} /\ viTorn = FALSE /\ viOver = FALSE

ViDisk == <<viFile, viMark, viRef, viSlot, viRing>>
ViHist == <<viGone, viTorn, viOver>>
ViBusy == {p \in ViProc : viCmd[p].at # "idle"}
ViGoto(p, at) == viCmd' = [viCmd EXCEPT ![p].at = at]
ViStop(p) == viCmd' = [viCmd EXCEPT ![p] = ViRest]
\* A failed or finished migration is a warning: the command goes on.
ViBack(p) == viCmd' = [viCmd EXCEPT ![p].mig = FALSE, ![p].id = 0,
                                   ![p].at = IF viCmd[p].op = "open" THEN "load" ELSE "ring"]
\* An error of storeInKeyring fails bootstrap, and only warns in a migration.
ViFail(p) == IF viCmd[p].mig THEN ViBack(p) ELSE ViStop(p)

\* A release that kept the identity in a file, without any marker.
OlderInstall ==
    /\ viCmds = 0 /\ viNew = 0 /\ viNew' = 1 /\ viFile' = 1 /\ viRing' = 1
    /\ UNCHANGED <<viMark, viRef, viSlot, viCmd, viCmds, ViHist>>

\* store: an OS keyring is usable in this session; insecure: the flag or the
\* environment variable.  Opening stops at once without a keyring.json.
ViStart(p, op, insecure, store) ==
    /\ viCmd[p].at = "idle" /\ viCmds < ViMaxCmds /\ viCmds' = viCmds + 1
    /\ (op = "open") = (p # ViBooter) /\ (op = "open" => viRing # 0)
    /\ viCmd' = [viCmd EXCEPT ![p] = [ViRest EXCEPT !.at = "loc", !.op = op,
                                      !.insecure = insecure, !.store = store]]
    /\ viOver' = (viOver \/ (ViBusy # {} /\ (op = "force" \/ viCmd[ViBooter].op = "force")))
    /\ UNCHANGED <<ViDisk, viNew, viGone, viTorn>>

----------------------------------------------------------------------------
\* Location looks for the reference first, then for the file and the marker.
StatRef(p) ==
    /\ viCmd[p].at \in {"loc", "mloc"}
    /\ viCmd' = [viCmd EXCEPT ![p].inRef = (viRef # 0),
                              ![p].at = IF viCmd[p].at = "loc" THEN "loc2" ELSE "mloc2"]
    /\ UNCHANGED <<ViDisk, viNew, viCmds, ViHist>>

Location(p) == IF viCmd[p].inRef THEN "keyring"
               ELSE IF viFile = 0 THEN "missing"
               ELSE IF viMark THEN "acknowledged" ELSE "unacknowledged"

\* planProvisionIdentity: a fresh identity.
ViProvision(p) ==
    LET c == viCmd[p] IN
    IF ~c.insecure /\ ~c.store THEN ViStop(p) /\ UNCHANGED viNew
    ELSE /\ viNew + 1 \in ViItem /\ viNew' = viNew + 1
         /\ viCmd' = [viCmd EXCEPT ![p].id = viNew + 1,
                                   ![p].at = IF c.insecure THEN "wfile" ELSE "store"]
PlanIdentity(p) ==
    LET c == viCmd[p]  loc == Location(p) IN
    /\ c.at = "loc2" /\ c.op # "open"
    /\ \/ /\ c.op = "force" /\ loc # "missing" /\ ViGoto(p, "rmitem")
          /\ viGone' = viGone \cup {viRing} /\ UNCHANGED viNew
       \/ loc = "missing" /\ ViProvision(p) /\ UNCHANGED viGone
       \/ /\ loc # "missing" /\ c.op # "force" /\ UNCHANGED <<viNew, viGone>>
          /\ ViGoto(p, CASE loc = "keyring" /\ viFile = 0                -> "ring"
                         [] loc = "acknowledged" /\ c.insecure           -> "ring"
                         [] loc = "unacknowledged" /\ c.insecure         -> "mark"
                         [] OTHER                                        -> "mloc")
    /\ viTorn' = (viTorn \/ (loc = "missing" /\ viRef # 0))
    /\ UNCHANGED <<ViDisk, viCmds, viOver>>

SecureVaultIdentity(p) ==
    LET c == viCmd[p] IN
    /\ c.at = "loc2" /\ c.op = "open"
    /\ ViGoto(p, IF viFile = 0 \/ (~c.inRef /\ (viMark \/ c.insecure)) THEN "load" ELSE "mloc")
    /\ UNCHANGED <<ViDisk, viNew, viCmds, ViHist>>

----------------------------------------------------------------------------
\* MigrateToKeyring
MigLocate(p) ==
    /\ viCmd[p].at = "mloc2"
    /\ IF viFile = 0 \/ ~viCmd[p].store THEN ViBack(p)
       ELSE viCmd' = [viCmd EXCEPT ![p].at = "mread", ![p].mig = TRUE]
    /\ UNCHANGED <<ViDisk, viNew, viCmds, ViHist>>
MigRead(p) ==
    /\ viCmd[p].at = "mread"
    /\ IF viFile = 0 THEN ViBack(p)
       ELSE viCmd' = [viCmd EXCEPT ![p].id = viFile,
                                   ![p].at = IF viCmd[p].inRef THEN "compare" ELSE "store"]
    /\ viTorn' = (viTorn \/ viFile = ViJunk)
    /\ UNCHANGED <<ViDisk, viNew, viCmds, viGone, viOver>>
\* Load: the reference if there is one, else the file.
LoadIdentity == IF viRef # 0 THEN viSlot[viRef] ELSE viFile
MigCompare(p) ==
    /\ viCmd[p].at = "compare"
    /\ IF LoadIdentity = viCmd[p].id THEN ViGoto(p, "shred") ELSE ViBack(p)
    /\ UNCHANGED <<ViDisk, viNew, viCmds, ViHist>>

\* storeInKeyring: the item is written under a fresh name, read back, and only
\* then referred to.
KeyringStore(p) ==
    /\ viCmd[p].at = "store" /\ viNew + 1 \in ViItem /\ viNew' = viNew + 1
    /\ \E held \in {viCmd[p].id, ViJunk} : viSlot' = [viSlot EXCEPT ![viNew + 1] = held]
    /\ viCmd' = [viCmd EXCEPT ![p].at = "readback", ![p].acct = viNew + 1]
    /\ UNCHANGED <<viFile, viMark, viRef, viRing, viCmds, ViHist>>
KeyringStoreFails(p) ==
    /\ viCmd[p].at = "store" /\ ViFail(p)
    /\ UNCHANGED <<ViDisk, viNew, viCmds, ViHist>>
ReadBackIgnored(p) ==
    /\ viCmd[p].at = "readback" /\ ViGoto(p, "wref")
    /\ UNCHANGED <<ViDisk, viNew, viCmds, ViHist>>
\* held: the item could be read; deleting a bad item may fail.
ReadBack(p) ==
    LET c == viCmd[p] IN
    /\ c.at = "readback"
    /\ \E held \in BOOLEAN, deleted \in BOOLEAN :
         IF held /\ viSlot[c.acct] = c.id THEN ViGoto(p, "wref") /\ UNCHANGED viSlot
         ELSE /\ ViFail(p)
              /\ viSlot' = IF deleted THEN [viSlot EXCEPT ![c.acct] = 0] ELSE viSlot
    /\ UNCHANGED <<viFile, viMark, viRef, viRing, viNew, viCmds, ViHist>>
WriteRef(p) ==
    LET c == viCmd[p] IN
    /\ c.at = "wref" /\ viRef' = c.acct
    /\ ViGoto(p, IF c.mig THEN "shred" ELSE "ring")
    /\ UNCHANGED <<viFile, viMark, viSlot, viRing, viNew, viCmds, ViHist>>
WriteRefFails(p) ==
    /\ viCmd[p].at = "wref" /\ ViFail(p)
    /\ viSlot' = [viSlot EXCEPT ![viCmd[p].acct] = 0]
    /\ UNCHANGED <<viFile, viMark, viRef, viRing, viNew, viCmds, ViHist>>

\* shredFile overwrites the file in place, then unlinks it.
Shred(p) ==
    /\ viCmd[p].at = "shred" /\ ViGoto(p, "unlink")
    /\ viFile' = IF viFile = 0 THEN 0 ELSE ViJunk
    /\ UNCHANGED <<viMark, viRef, viSlot, viRing, viNew, viCmds, ViHist>>
Unlink(p) ==
    /\ viCmd[p].at = "unlink" /\ viFile' = 0
    /\ ViGoto(p, IF viCmd[p].mig THEN "unmark" ELSE "rmref")
    /\ UNCHANGED <<viMark, viRef, viSlot, viRing, viNew, viCmds, ViHist>>
Unmark(p) ==
    /\ viCmd[p].at = "unmark" /\ viMark' = FALSE /\ ViBack(p)
    /\ UNCHANGED <<viFile, viRef, viSlot, viRing, viNew, viCmds, ViHist>>

----------------------------------------------------------------------------
\* Provision(insecure) and Acknowledge
WriteIdentity(p) ==
    /\ viCmd[p].at = "wfile" /\ viFile' = viCmd[p].id /\ ViGoto(p, "mark")
    /\ UNCHANGED <<viMark, viRef, viSlot, viRing, viNew, viCmds, ViHist>>
Acknowledge(p) ==
    /\ viCmd[p].at = "mark" /\ viMark' = TRUE /\ ViGoto(p, "ring")
    /\ UNCHANGED <<viFile, viRef, viSlot, viRing, viNew, viCmds, ViHist>>

\* Remove, for --force: the item, the file (Shred, Unlink), the reference, the
\* marker; then a fresh identity.
RemoveItem(p) ==
    /\ viCmd[p].at = "rmitem" /\ ViGoto(p, "shred")
    /\ viSlot' = IF viRef # 0 /\ viCmd[p].store THEN [viSlot EXCEPT ![viRef] = 0] ELSE viSlot
    /\ UNCHANGED <<viFile, viMark, viRef, viRing, viNew, viCmds, ViHist>>
RemoveRef(p) ==
    /\ viCmd[p].at = "rmref" /\ viRef' = 0 /\ ViGoto(p, "rmmark")
    /\ UNCHANGED <<viFile, viMark, viSlot, viRing, viNew, viCmds, ViHist>>
RemoveMark(p) ==
    /\ viCmd[p].at = "rmmark" /\ viMark' = FALSE /\ ViProvision(p)
    /\ UNCHANGED <<viFile, viRef, viSlot, viRing, viCmds, ViHist>>

\* planWriteKeyring
RingExists(p) ==
    /\ viCmd[p].at = "ring"
    /\ IF viRing # 0 /\ viCmd[p].op # "force" THEN ViStop(p) /\ UNCHANGED viRing
       ELSE viRing' = 0 /\ ViGoto(p, "derive")
    /\ UNCHANGED <<viFile, viMark, viRef, viSlot, viNew, viCmds, ViHist>>
\* The KEK comes from the identity as it can be loaded now; an item that is not
\* an identity is refused.
RingDerive(p) ==
    /\ viCmd[p].at = "derive"
    /\ IF LoadIdentity \in {0, ViJunk} \/ (viRef # 0 /\ ~viCmd[p].store) THEN ViStop(p)
       ELSE viCmd' = [viCmd EXCEPT ![p].id = LoadIdentity, ![p].at = "write"]
    /\ UNCHANGED <<ViDisk, viNew, viCmds, ViHist>>
RingWrite(p) ==
    /\ viCmd[p].at = "write" /\ viRing' = viCmd[p].id /\ ViStop(p)
    /\ UNCHANGED <<viFile, viMark, viRef, viSlot, viNew, viCmds, ViHist>>
\* An opening command derives the KEK and opens keyring.json, or fails.
OpenRing(p) ==
    /\ viCmd[p].at = "load" /\ ViStop(p)
    /\ UNCHANGED <<ViDisk, viNew, viCmds, ViHist>>
\* The process dies, or any other file operation fails.
ViCrash(p) ==
    /\ viCmd[p].at # "idle" /\ ViStop(p)
    /\ UNCHANGED <<ViDisk, viNew, viCmds, ViHist>>

ViNext ==
    \/ OlderInstall
    \/ \E p \in ViProc :
         \/ \E op \in {"open", "bootstrap", "force"}, i, s \in BOOLEAN : ViStart(p, op, i, s)
         \/ StatRef(p) \/ PlanIdentity(p) \/ SecureVaultIdentity(p)
         \/ MigLocate(p) \/ MigRead(p) \/ MigCompare(p)
         \/ KeyringStore(p) \/ KeyringStoreFails(p) \/ ReadBack(p) \/ WriteRef(p) \/ WriteRefFails(p)
         \/ Shred(p) \/ Unlink(p) \/ Unmark(p) \/ WriteIdentity(p) \/ Acknowledge(p)
         \/ RemoveItem(p) \/ RemoveRef(p) \/ RemoveMark(p)
         \/ RingExists(p) \/ RingDerive(p) \/ RingWrite(p) \/ OpenRing(p) \/ ViCrash(p)

----------------------------------------------------------------------------
\* Whatever dies or fails on the way, and however many commands move the
\* identity at once, the identity of keyring.json is still in the file or in
\* the OS keyring, unless --force was asked to destroy it or ran beside another
\* command (vault_identity.go:162: the file goes only after the read-back).
IdentityNotDestroyed ==
    viRing # 0 /\ viRing \notin viGone /\ ~viOver =>
        viFile = viRing \/ \E i \in ViItem : viSlot[i] = viRing

\* Load yields that identity at every moment, half-done migrations and
\* interrupted ones included, unless a command looked for it or read it while
\* another was moving it (vault_identity.go:130).
IdentityLoads ==
    viRing # 0 /\ viRing \notin viGone /\ ~viOver /\ ~viTorn => LoadIdentity = viRing

\* Moving the identity between file and OS keyring never costs it, and it loads
\* at every moment, also while a move is half done or was interrupted.
\* The parts name the exceptions.
IdentityKept == IdentityNotDestroyed /\ IdentityLoads
=============================================================================
