------------------------------ MODULE CertStore ------------------------------
(***************************************************************************)
(* cert_store.py: the pair of certificate and key that notifications are   *)
(* encrypted for, loaded or made at the start.  write_bytes empties a file *)
(* and then fills it, so a crash or an error leaves files cut short (Cut). *)
(***************************************************************************)
CONSTANTS
  Pairs,   \* pairs a start may generate
  NoFile,  \* a file that does not exist
  Cut      \* a file that was being written

ASSUME CertAssumption == NoFile \notin Pairs /\ Cut \notin Pairs /\ NoFile # Cut

VARIABLES
  certFile, keyFile,  \* what the two files hold
  loading,            \* where load_or_generate is
  pair,               \* the certificate and the private key in memory
  relied              \* certificates that running add-ons subscribed with

certVars == <<certFile, keyFile, loading, pair, relied>>

NoPair == [cert |-> NoFile, key |-> NoFile]

CertTypeOK ==
  /\ certFile \in Pairs \cup {NoFile, Cut} /\ keyFile \in Pairs \cup {NoFile, Cut}
  /\ loading \in {"no", "look", "cert", "between", "key", "done", "failed", "error"}
  /\ pair \in [cert : Pairs \cup {NoFile}, key : Pairs \cup {NoFile}]
  /\ relied \in SUBSET Pairs

CertInit ==
  certFile = NoFile /\ keyFile = NoFile /\ loading = "no" /\ pair = NoPair /\ relied = {}

(* The add-on goes on to make subscriptions with the certificate. *)
Return(cert, key) ==
  /\ loading' = "done" /\ pair' = [cert |-> cert, key |-> key]
  /\ relied' = relied \cup {cert}

(* Mutant: the key's file is not looked for. *)
Present_CertOnly == certFile # NoFile

Present == certFile # NoFile /\ keyFile # NoFile

Loads ==
  /\ loading = "look" /\ Present
  /\ IF {certFile, keyFile} \subseteq Pairs
       THEN Return(certFile, keyFile)
       ELSE loading' = "failed" /\ UNCHANGED <<pair, relied>>
  /\ UNCHANGED <<certFile, keyFile>>

Generates ==
  /\ loading = "look" /\ ~Present
  /\ \E p \in Pairs \ (relied \cup {certFile, keyFile}) : pair' = [cert |-> p, key |-> p]
  /\ certFile' = Cut /\ loading' = "cert"
  /\ UNCHANGED <<keyFile, relied>>

CertWritten ==
  /\ loading = "cert" /\ certFile' = pair.cert /\ loading' = "between"
  /\ UNCHANGED <<keyFile, pair, relied>>

(* Mutant: the add-on goes on before the key is saved. *)
KeyOpened_Returns ==
  /\ loading = "between" /\ keyFile' = NoFile
  /\ Return(pair.cert, pair.key)
  /\ UNCHANGED certFile

KeyOpened ==
  /\ loading = "between" /\ keyFile' = Cut /\ loading' = "key"
  /\ UNCHANGED <<certFile, pair, relied>>

KeyWritten ==
  /\ loading = "key" /\ keyFile' = pair.key
  /\ Return(pair.cert, pair.key)
  /\ UNCHANGED certFile

(* A call of the file system raises: the start ends, the files stay as they are. *)
IOFails ==
  /\ loading \in {"look", "cert", "between", "key"} /\ loading' = "error"
  /\ UNCHANGED <<certFile, keyFile, pair, relied>>

LoadStep == IOFails \/ Loads \/ Generates \/ CertWritten \/ KeyOpened \/ KeyWritten

(* The process begins, or is gone. *)
BeginLoad == loading' = "look" /\ UNCHANGED <<certFile, keyFile, pair, relied>>
ForgetPair == loading' = "no" /\ pair' = NoPair /\ UNCHANGED <<certFile, keyFile, relied>>

(* Wherever starts are cut off, by a kill or by an error of the file system, a
   running add-on has the key of every certificate that subscriptions were made
   with: they keep decrypting. *)
KeepsDecrypting == loading = "done" => relied \subseteq {pair.key}

(* A start finds files it cannot load only if an earlier one was cut off within the
   writing of the key's file; any other crash or error leaves files that the next
   start can do with. *)
FailsOnlyCut == loading = "failed" => keyFile = Cut
=============================================================================
