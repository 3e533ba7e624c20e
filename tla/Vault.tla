-------------------------------- MODULE Vault --------------------------------
(***************************************************************************)
(* The credential vault: the sops-encrypted file, serve's Provider that    *)
(* holds its decrypted contents and re-reads the file when its stamp       *)
(* moves, and the accounts backend's Store that rewrites it                *)
(* (internal/vault/sopsage, internal/atomicfile, internal/admin/manage.go).*)
(*                                                                         *)
(* Resolves, requests to the backend and an operator running sops by hand  *)
(* interleave.  Each version of the file is an element of versions; its    *)
(* index is also its stamp, because a replacement moves the modification   *)
(* time (a rewrite that restores time and size is outside ADR-0023).       *)
(***************************************************************************)
EXTENDS Naturals, Sequences

CONSTANTS
    Names,                  \* the names of the secrets
    Resolvers,              \* goroutines of serve that resolve a name
    Writers,                \* requests the backend is serving
    None,
    MaxVersions,            \* bound on the versions of the file
    MaxHandEdits,           \* bound on those sops wrote by hand
    FileMayFail,            \* whether a stat or a run of sops may fail
    RotatedWhileStarting    \* whether the file is written before New returned

ASSUME BoundsAssumption == MaxVersions \in Nat \ {0} /\ MaxHandEdits \in Nat
ASSUME SwitchesAssumption ==
    FileMayFail \in BOOLEAN /\ RotatedWhileStarting \in BOOLEAN
ASSUME NoneAssumption == None \notin Writers

VARIABLES
    versions,   \* the versions of the file so far; the last is on disk
    handEdits,  \* how many of them were written by hand
    provider,   \* the Provider's fields, and where New is
    resolving,  \* resolver -> its program counter and locals
    mu,         \* admin.Service.mu: the writer that holds it
    writing,    \* writer -> its program counter and locals
    wrote       \* history: name -> the version that last set it, 0 for absent

vars == <<versions, handEdits, provider, resolving, mu, writing, wrote>>

File == Len(versions)

(* A name's value is the version that set it; 0 is a name the vault lacks. *)
Contents == [Names -> 0 .. MaxVersions]

Version == [content : Contents, good : BOOLEAN]

(* fileStamp; 0 is the zero stamp, which no file has.                      *)
Stamps == 0 .. MaxVersions

Providers == [pc : {"new", "stamp", "built", "refused"}, secrets : Stamps,
              stamp : Stamps]

Resolving == [pc : {"idle", "stat", "compare", "decrypt", "store", "read"},
              seen : Stamps, got : Stamps]

Writing == [pc : {"idle", "open", "write"}, plain : Contents]

TypeOK ==
    /\ versions \in Seq(Version) /\ File \in 1 .. MaxVersions
    /\ handEdits \in 0 .. MaxHandEdits
    /\ provider \in Providers
    /\ resolving \in [Resolvers -> Resolving]
    /\ mu \in Writers \cup {None}
    /\ writing \in [Writers -> Writing]
    /\ wrote \in Contents

Empty == [n \in Names |-> 0]

Init ==
    /\ versions = <<[content |-> Empty, good |-> TRUE]>>
    /\ handEdits = 0
    /\ provider = [pc |-> "new", secrets |-> 0, stamp |-> 0]
    /\ resolving = [r \in Resolvers |->
                       [pc |-> "idle", seen |-> 0, got |-> 0]]
    /\ mu = None
    /\ writing = [w \in Writers |-> [pc |-> "idle", plain |-> Empty]]
    /\ wrote = Empty

Results == IF FileMayFail THEN BOOLEAN ELSE {TRUE}

-----------------------------------------------------------------------------
(* The Provider is built once, when serve starts.                          *)

(* decrypt and its decoding: what sops printed is a flat JSON object.      *)
Decrypts(ok) == ok /\ versions[File].good

Unwritten == UNCHANGED <<versions, handEdits, mu, writing, wrote>>

(* New: a vault that does not decrypt refuses to start serve.              *)
NewDecrypt(ok) ==
    /\ provider.pc = "new"
    /\ provider' = IF Decrypts(ok) THEN [provider EXCEPT !.pc = "stamp", !.secrets = File]
                                   ELSE [provider EXCEPT !.pc = "refused"]
    /\ Unwritten
    /\ UNCHANGED resolving

(* New stamps the file after it was decrypted; a failed stat leaves the    *)
(* zero stamp.                                                             *)
NewStamp(ok) ==
    /\ provider.pc = "stamp"
    /\ provider' = [provider EXCEPT !.pc = "built", !.stamp = IF ok THEN File ELSE 0]
    /\ Unwritten
    /\ UNCHANGED resolving

-----------------------------------------------------------------------------
(* Resolve, in serve.                                                      *)

Begin(r) ==
    /\ provider.pc = "built"
    /\ resolving[r].pc = "idle"
    /\ resolving' = [resolving EXCEPT ![r].pc = "stat"]
    /\ Unwritten
    /\ UNCHANGED provider

(* reloadIfChanged: the file's stamp, read before its contents.  What      *)
(* reportReload logs when reloads start or stop failing is left out.       *)
Stat(r, ok) ==
    /\ resolving[r].pc = "stat"
    /\ resolving' = [resolving EXCEPT ![r] =
                        IF ok THEN [@ EXCEPT !.pc = "compare", !.seen = File]
                              ELSE [@ EXCEPT !.pc = "read", !.seen = 0]]
    /\ Unwritten
    /\ UNCHANGED provider

CompareNever(r) ==
    /\ resolving[r].pc = "compare"
    /\ resolving' = [resolving EXCEPT ![r] = [@ EXCEPT !.pc = "read", !.seen = 0]]
    /\ Unwritten
    /\ UNCHANGED provider

Compare(r) ==
    /\ resolving[r].pc = "compare"
    /\ resolving' = [resolving EXCEPT ![r] =
                        IF @.seen = provider.stamp THEN [@ EXCEPT !.pc = "read", !.seen = 0]
                                                   ELSE [@ EXCEPT !.pc = "decrypt"]]
    /\ Unwritten
    /\ UNCHANGED provider

(* sops runs with no lock held.                                            *)
Decrypt(r, ok) ==
    /\ resolving[r].pc = "decrypt"
    /\ resolving' = [resolving EXCEPT ![r] =
                        IF Decrypts(ok) THEN [@ EXCEPT !.pc = "store", !.got = File]
                                        ELSE [@ EXCEPT !.pc = "read", !.seen = 0]]
    /\ Unwritten
    /\ UNCHANGED provider

StoreStampingAgain(r) ==
    /\ resolving[r].pc = "store"
    /\ provider' = [provider EXCEPT !.secrets = resolving[r].got, !.stamp = File]
    /\ resolving' = [resolving EXCEPT ![r] = [@ EXCEPT !.pc = "read", !.got = 0, !.seen = 0]]
    /\ Unwritten

(* The contents and the stamp read before them, under the lock.            *)
Store(r) ==
    /\ resolving[r].pc = "store"
    /\ provider' = [provider EXCEPT !.secrets = resolving[r].got,
                                    !.stamp = resolving[r].seen]
    /\ resolving' = [resolving EXCEPT ![r] = [@ EXCEPT !.pc = "read", !.got = 0, !.seen = 0]]
    /\ Unwritten

(* The answer is looked up in the secrets of the moment.                   *)
Read(r) ==
    /\ resolving[r].pc = "read"
    /\ resolving' = [resolving EXCEPT ![r].pc = "idle"]
    /\ Unwritten
    /\ UNCHANGED provider

-----------------------------------------------------------------------------
(* SetSecret and DeleteSecret, in the accounts backend.                    *)

Writable ==
    /\ File < MaxVersions
    /\ RotatedWhileStarting \/ provider.pc \in {"built", "refused"}

Unread == UNCHANGED <<provider, resolving>>

LockNothing(w) ==
    /\ writing[w].pc = "idle"
    /\ writing' = [writing EXCEPT ![w].pc = "open"]
    /\ mu' = mu
    /\ UNCHANGED <<versions, handEdits, wrote>>
    /\ Unread

Lock(w) ==
    /\ writing[w].pc = "idle"
    /\ mu = None
    /\ mu' = w
    /\ writing' = [writing EXCEPT ![w].pc = "open"]
    /\ UNCHANGED <<versions, handEdits, wrote>>
    /\ Unread

Unlocked(w) ==
    /\ mu' = None
    /\ writing' = [writing EXCEPT ![w] = [pc |-> "idle", plain |-> Empty]]

(* open: a vault that cannot be read or decrypted is not rewritten.        *)
Open(w, ok) ==
    /\ writing[w].pc = "open"
    /\ IF Decrypts(ok)
       THEN /\ writing' = [writing EXCEPT ![w] = [pc |-> "write",
                                                  plain |-> versions[File].content]]
            /\ UNCHANGED mu
       ELSE Unlocked(w)
    /\ UNCHANGED <<versions, handEdits, wrote>>
    /\ Unread

(* write and atomicfile.Replace: the new ciphertext decrypts to what was   *)
(* encrypted, and a rename puts it in place.                               *)
Replace(w, content) ==
    /\ Writable
    /\ versions' = Append(versions, [content |-> content, good |-> TRUE])
    /\ Unlocked(w)
    /\ UNCHANGED handEdits
    /\ Unread

SetAheadOfItsVersion(w, n) ==
    /\ writing[w].pc = "write"
    /\ Replace(w, [writing[w].plain EXCEPT ![n] = File + 2])
    /\ wrote' = [wrote EXCEPT ![n] = File + 2]

Set(w, n) ==
    /\ writing[w].pc = "write"
    /\ Replace(w, [writing[w].plain EXCEPT ![n] = File + 1])
    /\ wrote' = [wrote EXCEPT ![n] = File + 1]

(* A name that is not there is not deleted, and the file is not rewritten. *)
Delete(w, n) ==
    /\ writing[w].pc = "write"
    /\ writing[w].plain[n] # 0
    /\ Replace(w, [writing[w].plain EXCEPT ![n] = 0])
    /\ wrote' = [wrote EXCEPT ![n] = 0]

(* Nothing to delete, or encrypt, the check or the rename failed: the file *)
(* is as it was.                                                           *)
WritesNothing(w) ==
    /\ writing[w].pc = "write"
    /\ Unlocked(w)
    /\ UNCHANGED <<versions, handEdits, wrote>>
    /\ Unread

(* An operator rewrites the file with sops, well or badly; the Store does  *)
(* not coordinate with it.                                                 *)
HandEdit(n, good) ==
    /\ Writable
    /\ handEdits < MaxHandEdits
    /\ handEdits' = handEdits + 1
    /\ versions' = Append(versions,
                          [content |-> [versions[File].content EXCEPT ![n] = File + 1],
                           good |-> good])
    /\ UNCHANGED <<mu, writing, wrote>>
    /\ Unread

-----------------------------------------------------------------------------
ResolveStep(r) ==
    \/ Begin(r)
    \/ \E ok \in Results : Stat(r, ok) \/ Decrypt(r, ok)
    \/ Compare(r) \/ Store(r) \/ Read(r)

Next ==
    \/ \E ok \in Results : NewDecrypt(ok) \/ NewStamp(ok)
    \/ \E r \in Resolvers : ResolveStep(r)
    \/ \E w \in Writers :
           \/ Lock(w) \/ WritesNothing(w)
           \/ \E ok \in Results : Open(w, ok)
           \/ \E n \in Names : Set(w, n) \/ Delete(w, n)
    \/ \E n \in Names, good \in BOOLEAN : HandEdit(n, good)

Spec == Init /\ [][Next]_vars

(* serve starts, and its rounds resolve every credential again and again;  *)
(* the file system and sops may fail, but not for good.                    *)
FairSpec ==
    /\ Spec
    /\ WF_vars(\E ok \in Results : NewDecrypt(ok) \/ NewStamp(ok))
    /\ \A r \in Resolvers : /\ WF_vars(ResolveStep(r))
                            /\ SF_vars(Stat(r, TRUE))
                            /\ SF_vars(Decrypt(r, TRUE))

-----------------------------------------------------------------------------
(* Properties.                                                             *)

(* The Provider's stamp is what the file looked like when its secrets were *)
(* built: a stamp that still matches the file means the secrets are the    *)
(* file's, however reloads of different versions overtake each other       *)
(* (Provider.stamp, reloadIfChanged).                                      *)
StampTellsContents ==
    (provider.pc = "built" /\ provider.stamp = File) => provider.secrets = File

(* As long as nobody edits the vault by hand, it holds exactly what the    *)
(* completed requests set and deleted: two requests never write back each  *)
(* other's older document (SetSecret, DeleteSecret, Store.write).          *)
StoreLosesNothing == handEdits = 0 => versions[File].content = wrote

(* A rotation is picked up: once the file stays as it is and decrypts,     *)
(* serve's secrets are the file's and stay so (reloadIfChanged).           *)
RotationIsPickedUp ==
    <>[]((provider.pc = "built" /\ versions[File].good) => provider.secrets = File)

-----------------------------------------------------------------------------
(* The strengthening StampTellsContents and StoreLosesNothing rest on.     *)

(* A reload stats before it decrypts, so what it decrypted is never older  *)
(* than the stamp it will store with it.                                   *)
ReloadsInOrder ==
    \A r \in Resolvers :
        /\ resolving[r].pc \in {"compare", "decrypt", "store"} => resolving[r].seen <= File
        /\ resolving[r].pc = "store" =>
               resolving[r].seen <= resolving[r].got /\ resolving[r].got <= File

(* So are the Provider's own two fields, once New has returned.            *)
ProviderInOrder ==
    /\ provider.pc = "stamp" => provider.secrets = File
    /\ provider.pc = "built" =>
           provider.stamp <= provider.secrets /\ provider.secrets <= File

(* Nobody resolves before New has returned.                                *)
OnlyBuiltResolves ==
    \A r \in Resolvers : resolving[r].pc # "idle" => provider.pc = "built"

(* A request between Lock and Unlock holds the mutex, and what it read is  *)
(* still what the file holds.                                              *)
WritersExclude == \A w \in Writers : writing[w].pc # "idle" => mu = w

WritersCurrent ==
    handEdits = 0 => \A w \in Writers : writing[w].pc = "write" => writing[w].plain = wrote

Inv ==
    /\ TypeOK
    /\ ReloadsInOrder
    /\ ProviderInOrder
    /\ OnlyBuiltResolves
    /\ WritersExclude
    /\ WritersCurrent
    /\ StoreLosesNothing

(* The file and the copy in memory are what they are taken for: a stamp    *)
(* that matches means the file's secrets, and the file holds what the      *)
(* requests wrote (reloadIfChanged, SetSecret, DeleteSecret).              *)
VaultIsExact == TypeOK /\ StampTellsContents /\ StoreLosesNothing
=============================================================================
