----------------------------- MODULE MCVault -----------------------------
(***************************************************************************)
(* What the program keeps on this machine: the versioned and the flat layout*)
(* of the vault, the change of its cipher, the keychain, the identity that  *)
(* opens it, the settings files of the program and of the agents it guards. *)
(* They share no state: the variable part picks the component of a behaviour,*)
(* and only that component moves.                                           *)
(***************************************************************************)
EXTENDS VaultVersions,
        FileStore,
        Keychain,
        VaultIdentity,
        Setup,
        GuardInstall, TLC

VARIABLE part   \* the component this behaviour is about

CONSTANTS p1, q1, q2, v1

VaultParts == {"versions", "flat", "migrate", "keychain", "identity", "setup", "guard"}

VaultInit ==
    /\ part \in VaultParts
    /\ Init
    /\ FsInit
    /\ CmInit
    /\ KcStart
    /\ ViInit
    /\ StInit
    /\ GiInit

VaultNext ==
  \/ part = "versions" /\ Next
     /\ UNCHANGED <<part, fsVars, cmVars, kcVars, viVars, stVars, giVars>>
  \/ part = "flat" /\ FsNext
     /\ UNCHANGED <<part, vars, cmVars, kcVars, viVars, stVars, giVars>>
  \/ part = "migrate" /\ CmNext
     /\ UNCHANGED <<part, vars, fsVars, kcVars, viVars, stVars, giVars>>
  \/ part = "keychain" /\ KcNext
     /\ UNCHANGED <<part, vars, fsVars, cmVars, viVars, stVars, giVars>>
  \/ part = "identity" /\ ViNext
     /\ UNCHANGED <<part, vars, fsVars, cmVars, kcVars, stVars, giVars>>
  \/ part = "setup" /\ StNext
     /\ UNCHANGED <<part, vars, fsVars, cmVars, kcVars, viVars, giVars>>
  \/ part = "guard" /\ GiNext
     /\ UNCHANGED <<part, vars, fsVars, cmVars, kcVars, viVars, stVars>>

VaultVars == <<part, vars, fsVars, cmVars, kcVars, viVars, stVars, giVars>>
VaultSpec == VaultInit /\ [][VaultNext]_VaultVars
=============================================================================
