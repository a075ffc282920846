--------------------------- MODULE CredentialStore ---------------------------
(***************************************************************************)
(* CredentialStoreChain of the CLI: one credential kept in the operating   *)
(* system's keyring or, when that fails or the user asked for it, in a     *)
(* plaintext file that masks the keyring.  Where neither can be emptied a  *)
(* marker in the file says that the user is logged out.  A call makes one  *)
(* keyring or file operation per step, and each of them may fail.          *)
(***************************************************************************)
EXTENDS Integers, FiniteSets

CONSTANTS
  Process,            \* CLI processes of one user, each runs one command
  Session,            \* ids of CLI sessions, and of the tokens they begin with
  MaxFaults           \* bound: faults of all kinds together

ASSUME ProcessAssumption == Process \cap Session = {}
ASSUME NullAssumption == {} \notin Process \cup Session     \* {} stands for nothing
ASSUME FaultAssumption == MaxFaults \in Nat

VARIABLES
  keyring,            \* the credential in the keyring
  plaintext,          \* credentials.json
  call,               \* the store call each process has made
  faults              \* faults so far: crashes, lost answers, and the store's

\* The access and the refresh token of a credential have one id, the id of
\* the process that rotated them or of the session they began.
Token == Process \cup Session
Credential == [session : Session \cup {{}}, token : Token \cup {{}}, expires : Nat]
NoCredential == [session |-> {}, token |-> {}, expires |-> 0]

File(kind, credential) == [kind |-> kind, credential |-> credential]
NoFile == File("none", NoCredential)

StoreTypeOK ==
  /\ keyring \in Credential
  /\ plaintext \in [kind : {"none", "invalid", "marker", "credential"},
                    credential : Credential]
  /\ call \in [Process ->
       [pc : {"idle", "set", "setMasked", "drop", "delete", "plain", "mask",
              "insecure", "unmask", "erase", "marker", "ok", "thrown"},
        credential : Credential]]
  /\ faults \in [{"crash", "lost", "store"} -> 0..MaxFaults]

NoCall == [pc |-> "idle", credential |-> NoCredential]

Fault(kind) ==
  /\ faults["crash"] + faults["lost"] + faults["store"] < MaxFaults
  /\ faults' = [faults EXCEPT ![kind] = @ + 1]

-----------------------------------------------------------------------------
\* A file that holds a credential or the marker decides what is read.
Masks == plaintext.kind \in {"credential", "marker"}

\* What read() finds when no call fails.
Visible ==
  CASE plaintext.kind = "credential" -> plaintext.credential
    [] plaintext.kind = "marker" -> NoCredential
    [] plaintext.kind \in {"none", "invalid"} -> keyring

\* read(): a keyring that throws reads as a keyring that is empty.
Read(seen) ==
  /\ \/ seen = Visible /\ UNCHANGED faults
     \/ ~Masks /\ seen = NoCredential /\ keyring # NoCredential /\ Fault("store")
  /\ UNCHANGED <<keyring, plaintext>>

\* readOptionalFile throws: the file is there and cannot be read.
ReadFails == Fault("store") /\ UNCHANGED <<keyring, plaintext>>

CallGoes(p, pc) == call' = [call EXCEPT ![p].pc = pc]
Begin(p, pc, credential) ==
  call' = [call EXCEPT ![p] = [pc |-> pc, credential |-> credential]]

BeginReplace(p, credential) == Begin(p, IF Masks THEN "plain" ELSE "set", credential)
BeginWrite(p, credential, insecure) ==
  Begin(p, IF insecure THEN "insecure" ELSE IF Masks THEN "mask" ELSE "set", credential)
BeginDelete(p) == Begin(p, "delete", NoCredential)
Returned(p) == call[p].pc \in {"ok", "thrown"}

\* setPassword and deletePassword, and what follows them
AfterKeyring ==
  [set |-> "ok", setMasked |-> "unmask", drop |-> "ok", delete |-> "erase"]
AfterKeyringError ==
  [set |-> "plain", setMasked |-> "ok", drop |-> "ok", delete |-> "marker"]

KeyringStep(p) ==
  /\ call[p].pc \in DOMAIN AfterKeyring
  /\ keyring' = IF call[p].pc \in {"drop", "delete"} THEN NoCredential
                 ELSE call[p].credential
  /\ CallGoes(p, AfterKeyring[call[p].pc])
  /\ UNCHANGED <<plaintext, faults>>

KeyringFails(p) ==
  /\ call[p].pc \in DOMAIN AfterKeyringError /\ Fault("store")
  /\ CallGoes(p, AfterKeyringError[call[p].pc])
  /\ UNCHANGED <<keyring, plaintext>>

\* writePlaintext, whose rename is what others see, and removePlaintext
AfterFile ==
  [plain |-> "ok", mask |-> "setMasked", insecure |-> "drop",
   unmask |-> "ok", erase |-> "ok", marker |-> "ok"]

MutantAfterFileError ==               \* a file that could not be removed stays
  [set |-> "thrown", plain |-> "thrown", mask |-> "thrown", insecure |-> "thrown",
   unmask |-> "ok", erase |-> "ok", marker |-> "thrown"]

\* Before "set", as before "plain" and "mask", replace and write read the file.
AfterFileError ==
  [set |-> "thrown", plain |-> "thrown", mask |-> "thrown", insecure |-> "thrown",
   unmask |-> "ok", erase |-> "marker", marker |-> "thrown"]

FileStep(p) ==
  /\ call[p].pc \in DOMAIN AfterFile
  /\ plaintext' = CASE call[p].pc \in {"unmask", "erase"} -> NoFile
                    [] call[p].pc = "marker" -> File("marker", NoCredential)
                    [] call[p].pc \in {"plain", "mask", "insecure"} ->
                         File("credential", call[p].credential)
  /\ CallGoes(p, AfterFile[call[p].pc])
  /\ UNCHANGED <<keyring, faults>>

FileFails(p) ==
  /\ call[p].pc \in DOMAIN AfterFileError /\ Fault("store")
  /\ CallGoes(p, AfterFileError[call[p].pc])
  /\ UNCHANGED <<keyring, plaintext>>
=============================================================================
