---------------------------- MODULE VaultProofs ----------------------------
(***************************************************************************)
(* What the vault guarantees for every number of resolves, requests, names *)
(* and versions, when nobody rewrites the file while serve is starting.    *)
(* Inv is inductive; the theorems are its consequences.                    *)
(***************************************************************************)
EXTENDS Vault, TLAPS

(* The last version is a version.                                          *)
LEMMA FileIsAVersion ==
  ASSUME TypeOK
  PROVE  File \in Nat /\ File >= 1 /\ File <= MaxVersions /\ versions[File] \in Version
  BY BoundsAssumption DEF TypeOK, File

(* Appending a version moves the file to it.                               *)
LEMMA AppendMovesFile ==
  ASSUME TypeOK, File < MaxVersions, NEW v \in Version, versions' = Append(versions, v)
  PROVE  /\ versions' \in Seq(Version)
         /\ File' = File + 1
         /\ File' \in 1 .. MaxVersions
         /\ versions'[File'] = v
  BY BoundsAssumption DEF TypeOK, File

LEMMA InitInv == Init => Inv
<1> SUFFICES ASSUME Init PROVE Inv
  OBVIOUS
<1>1. Empty \in Contents
  BY BoundsAssumption DEF Empty, Contents
<1>2. [content |-> Empty, good |-> TRUE] \in Version
  BY <1>1 DEF Version
<1>3. versions \in Seq(Version) /\ Len(versions) = 1
      /\ versions[1] = [content |-> Empty, good |-> TRUE]
  BY <1>2 DEF Init
<1>4. TypeOK
  BY <1>1, <1>3, BoundsAssumption DEF Init, TypeOK, File, Providers, Resolving, Writing, Stamps
<1>5. /\ ReloadsInOrder /\ ProviderInOrder /\ OnlyBuiltResolves
      /\ WritersExclude /\ WritersCurrent
  BY DEF Init, ReloadsInOrder, ProviderInOrder, OnlyBuiltResolves, WritersExclude,
         WritersCurrent
<1>6. StoreLosesNothing
  BY <1>3 DEF Init, StoreLosesNothing, File
<1> QED
  BY <1>4, <1>5, <1>6 DEF Inv

(* New and Resolve leave the file and its writers alone.                   *)
LEMMA ReaderStep ==
  ASSUME Inv, Unwritten, resolving' \in [Resolvers -> Resolving],
         provider' \in Providers,
         ReloadsInOrder', ProviderInOrder', OnlyBuiltResolves'
  PROVE  Inv'
<1>1. TypeOK'
  BY DEF Inv, Unwritten, TypeOK, File
<1>2. WritersExclude' /\ WritersCurrent' /\ StoreLosesNothing'
  BY DEF Inv, Unwritten, WritersExclude, WritersCurrent, StoreLosesNothing, File
<1> QED
  BY <1>1, <1>2 DEF Inv

LEMMA NewInv ==
  ASSUME Inv, NEW ok \in BOOLEAN, NewDecrypt(ok) \/ NewStamp(ok)
  PROVE  Inv'
<1>1. File' = File /\ File \in Stamps /\ Unwritten /\ UNCHANGED resolving
  BY FileIsAVersion DEF Inv, NewDecrypt, NewStamp, Unwritten, File, Stamps
<1>2. ReloadsInOrder' /\ resolving' \in [Resolvers -> Resolving]
  BY <1>1 DEF Inv, TypeOK, ReloadsInOrder
<1>3. provider' \in Providers
  <2>1. provider \in Providers /\ 0 \in Stamps
    BY BoundsAssumption DEF Inv, TypeOK, Stamps
  <2>2. CASE NewDecrypt(ok)
    BY <1>1, <2>1, <2>2 DEF NewDecrypt, Providers
  <2>3. CASE NewStamp(ok)
    BY <1>1, <2>1, <2>3 DEF NewStamp, Providers
  <2> QED BY <2>2, <2>3
<1>4. ProviderInOrder'
  <2>1. CASE NewDecrypt(ok)
    BY <1>1, <2>1 DEF Inv, TypeOK, NewDecrypt, ProviderInOrder
  <2>2. CASE NewStamp(ok)
    <3>1. provider.secrets = File
      BY <2>2 DEF Inv, ProviderInOrder, NewStamp
    <3> QED BY <1>1, <2>2, <3>1, FileIsAVersion DEF Inv, TypeOK, NewStamp, ProviderInOrder
  <2> QED BY <2>1, <2>2
<1>5. OnlyBuiltResolves'
  BY <1>1 DEF Inv, OnlyBuiltResolves, NewDecrypt, NewStamp
<1> QED
  BY <1>1, <1>2, <1>3, <1>4, <1>5, ReaderStep

(* A step of a resolve that only moves its own locals.                     *)
LEMMA LocalStep ==
  ASSUME Inv, Unwritten, UNCHANGED provider, provider.pc = "built",
         NEW r \in Resolvers, NEW l \in Resolving,
         resolving' = [resolving EXCEPT ![r] = l],
         l.pc \in {"compare", "decrypt", "store"} => l.seen <= File,
         l.pc = "store" => l.seen <= l.got /\ l.got <= File
  PROVE  Inv'
<1>1. File' = File
  BY DEF Unwritten, File
<1>2. resolving' \in [Resolvers -> Resolving]
  BY DEF Inv, TypeOK
<1>3. ReloadsInOrder'
  BY <1>1 DEF Inv, TypeOK, ReloadsInOrder
<1>4. ProviderInOrder' /\ OnlyBuiltResolves'
  BY <1>1 DEF Inv, ProviderInOrder, OnlyBuiltResolves
<1> QED
  BY <1>2, <1>3, <1>4, ReaderStep DEF Inv, TypeOK

(* The step of a resolve that stores a reload.                             *)
LEMMA ProviderStep ==
  ASSUME Inv, Unwritten, NEW r \in Resolvers, NEW l \in Resolving,
         resolving' = [resolving EXCEPT ![r] = l],
         l.pc = "read",
         provider' \in Providers,
         provider'.pc = "built",
         provider'.stamp <= provider'.secrets, provider'.secrets <= File
  PROVE  Inv'
<1>1. File' = File
  BY DEF Unwritten, File
<1>2. resolving' \in [Resolvers -> Resolving]
  BY DEF Inv, TypeOK
<1>3. ReloadsInOrder'
  BY <1>1 DEF Inv, TypeOK, ReloadsInOrder
<1>4. ProviderInOrder' /\ OnlyBuiltResolves'
  BY <1>1 DEF Inv, ProviderInOrder, OnlyBuiltResolves
<1> QED
  BY <1>2, <1>3, <1>4, ReaderStep DEF Inv, TypeOK

LEMMA ResolveInv ==
  ASSUME Inv, NEW r \in Resolvers, ResolveStep(r)
  PROVE  Inv'
<1>0. resolving[r] \in Resolving /\ File \in Stamps /\ 0 \in Stamps /\ File <= File
  BY FileIsAVersion, BoundsAssumption DEF Inv, TypeOK, Stamps
<1>b. provider.pc = "built"
  BY DEF Inv, OnlyBuiltResolves, ResolveStep, Begin, Stat, Compare, Decrypt, Store,
         Read
<1>1. CASE Begin(r)
  <2> DEFINE l == [resolving[r] EXCEPT !.pc = "stat"]
  <2>1. l \in Resolving /\ l.pc = "stat"
    BY <1>0 DEF Resolving
  <2>2. resolving' = [resolving EXCEPT ![r] = l] /\ Unwritten /\ UNCHANGED provider
    BY <1>1 DEF Begin
  <2> QED BY <2>1, <2>2, <1>b, LocalStep
<1>2. ASSUME NEW ok \in Results, Stat(r, ok) PROVE Inv'
  <2> DEFINE l == IF ok THEN [resolving[r] EXCEPT !.pc = "compare", !.seen = File]
                        ELSE [resolving[r] EXCEPT !.pc = "read", !.seen = 0]
  <2>1. l \in Resolving /\ l.pc \in {"compare", "read"}
        /\ (l.pc = "compare" => l.seen <= File)
    BY <1>0 DEF Resolving
  <2>2. resolving' = [resolving EXCEPT ![r] = l] /\ Unwritten /\ UNCHANGED provider
    BY <1>2 DEF Stat
  <2> QED BY <2>1, <2>2, <1>b, LocalStep
<1>3. CASE Compare(r)
  <2> DEFINE l == IF resolving[r].seen = provider.stamp
                  THEN [resolving[r] EXCEPT !.pc = "read", !.seen = 0]
                  ELSE [resolving[r] EXCEPT !.pc = "decrypt"]
  <2>1. resolving[r].seen <= File
    BY <1>3 DEF Inv, ReloadsInOrder, Compare
  <2>2. l \in Resolving /\ l.pc \in {"read", "decrypt"}
        /\ (l.pc = "decrypt" => l.seen <= File)
    BY <1>0, <2>1 DEF Resolving
  <2>3. resolving' = [resolving EXCEPT ![r] = l] /\ Unwritten /\ UNCHANGED provider
    BY <1>3 DEF Compare
  <2> QED BY <2>2, <2>3, <1>b, LocalStep
<1>4. ASSUME NEW ok \in Results, Decrypt(r, ok) PROVE Inv'
  <2> DEFINE l == IF Decrypts(ok) THEN [resolving[r] EXCEPT !.pc = "store", !.got = File]
                  ELSE [resolving[r] EXCEPT !.pc = "read", !.seen = 0]
  <2>1. resolving[r].seen <= File
    BY <1>4 DEF Inv, ReloadsInOrder, Decrypt
  <2>2. l \in Resolving /\ l.pc \in {"read", "store"}
        /\ (l.pc = "store" => l.seen <= File /\ l.got = File)
    BY <1>0, <2>1 DEF Resolving
  <2>3. resolving' = [resolving EXCEPT ![r] = l] /\ Unwritten /\ UNCHANGED provider
    BY <1>4 DEF Decrypt
  <2> QED BY <1>0, <2>2, <2>3, <1>b, LocalStep
<1>5. CASE Store(r)
  <2> DEFINE l == [resolving[r] EXCEPT !.pc = "read", !.got = 0, !.seen = 0]
  <2>1. l \in Resolving /\ l.pc = "read"
    BY <1>0 DEF Resolving
  <2>2. resolving[r].seen <= resolving[r].got /\ resolving[r].got <= File
    BY <1>5 DEF Inv, ReloadsInOrder, Store
  <2>3. resolving' = [resolving EXCEPT ![r] = l] /\ Unwritten
    BY <1>5 DEF Store
  <2>4. provider' = [provider EXCEPT !.secrets = resolving[r].got, !.stamp = resolving[r].seen]
    BY <1>5 DEF Store
  <2>5. provider' \in Providers /\ provider'.pc = provider.pc
        /\ provider'.secrets = resolving[r].got /\ provider'.stamp = resolving[r].seen
    BY <1>0, <2>4 DEF Inv, TypeOK, Providers, Resolving
  <2> QED BY <1>b, <2>1, <2>2, <2>3, <2>5, ProviderStep
<1>6. CASE Read(r)
  <2> DEFINE l == [resolving[r] EXCEPT !.pc = "idle"]
  <2>1. l \in Resolving /\ l.pc = "idle"
    BY <1>0 DEF Resolving
  <2>2. resolving' = [resolving EXCEPT ![r] = l] /\ Unwritten /\ UNCHANGED provider
    BY <1>6 DEF Read
  <2> QED BY <2>1, <2>2, <1>b, LocalStep
<1> QED
  BY <1>1, <1>2, <1>3, <1>4, <1>5, <1>6 DEF ResolveStep

-----------------------------------------------------------------------------
(* A new version never disorders what readers hold, unless New is between  *)
(* its decryption and its stamp.                                           *)
LEMMA ReadersKeepOrder ==
  ASSUME Inv, Unread, File' = File \/ (File' = File + 1 /\ provider.pc # "stamp")
  PROVE  ReloadsInOrder' /\ ProviderInOrder' /\ OnlyBuiltResolves'
<1>1. File \in Nat /\ (\A n \in Nat : n <= File => n <= File')
  BY FileIsAVersion DEF Inv
<1>2. \A r \in Resolvers : resolving[r].seen \in Nat /\ resolving[r].got \in Nat
  BY DEF Inv, TypeOK, Resolving, Stamps
<1>3. provider.secrets \in Nat /\ provider.stamp \in Nat
  BY DEF Inv, TypeOK, Providers, Stamps
<1>4. ReloadsInOrder'
  BY <1>1, <1>2 DEF Inv, Unread, ReloadsInOrder
<1>5. ProviderInOrder'
  BY <1>1, <1>3 DEF Inv, Unread, ProviderInOrder
<1>6. OnlyBuiltResolves'
  BY DEF Inv, Unread, OnlyBuiltResolves
<1> QED
  BY <1>4, <1>5, <1>6

(* A request that writes no version.                                       *)
LEMMA WriterKeepsFile ==
  ASSUME Inv, NEW w \in Writers, NEW ok \in BOOLEAN,
         Lock(w) \/ Open(w, ok) \/ WritesNothing(w)
  PROVE  Inv'
<1>1. UNCHANGED <<versions, handEdits, wrote>> /\ Unread /\ File' = File
  BY DEF Lock, Open, WritesNothing, File
<1>2. Empty \in Contents /\ versions[File].content \in Contents
  BY FileIsAVersion, BoundsAssumption DEF Inv, Empty, Contents, Version
<1>3. \/ /\ mu = None /\ mu' = w
         /\ writing' = [writing EXCEPT ![w].pc = "open"]
      \/ /\ mu = w /\ mu' = w /\ Decrypts(ok)
         /\ writing' = [writing EXCEPT ![w] = [pc |-> "write",
                                               plain |-> versions[File].content]]
      \/ /\ mu = w /\ mu' = None
         /\ writing' = [writing EXCEPT ![w] = [pc |-> "idle", plain |-> Empty]]
  BY DEF Inv, WritersExclude, Lock, Open, WritesNothing, Unlocked
<1>4. TypeOK'
  <2>1. writing' \in [Writers -> Writing] /\ mu' \in Writers \cup {None}
    BY <1>2, <1>3 DEF Inv, TypeOK, Writing
  <2> QED BY <1>1, <2>1 DEF Inv, TypeOK, Unread
<1>5. WritersExclude'
  BY <1>3, NoneAssumption DEF Inv, TypeOK, WritersExclude
<1>6. WritersCurrent'
  BY <1>1, <1>3 DEF Inv, TypeOK, Writing, WritersCurrent, StoreLosesNothing
<1>7. StoreLosesNothing'
  BY <1>1 DEF Inv, StoreLosesNothing
<1> QED
  BY <1>1, <1>4, <1>5, <1>6, <1>7, ReadersKeepOrder DEF Inv

(* A request that replaces the file.                                       *)
LEMMA WriterReplaces ==
  ASSUME Inv, ~RotatedWhileStarting, NEW w \in Writers, NEW n \in Names,
         Set(w, n) \/ Delete(w, n)
  PROVE  Inv'
<1>1. PICK v \in 0 .. MaxVersions :
          /\ Replace(w, [writing[w].plain EXCEPT ![n] = v])
          /\ wrote' = [wrote EXCEPT ![n] = v]
  <2>1. File + 1 \in 0 .. MaxVersions /\ 0 \in 0 .. MaxVersions
    BY FileIsAVersion, BoundsAssumption DEF Inv, Set, Delete, Replace, Writable
  <2> QED BY <2>1 DEF Set, Delete
<1> DEFINE c == [writing[w].plain EXCEPT ![n] = v]
<1>2. c \in Contents /\ Empty \in Contents /\ wrote' \in Contents
  BY <1>1, BoundsAssumption DEF Inv, TypeOK, Writing, Contents, Empty
<1>3. File < MaxVersions /\ provider.pc # "stamp" /\ Unread /\ UNCHANGED handEdits
      /\ versions' = Append(versions, [content |-> c, good |-> TRUE])
  BY <1>1 DEF Replace, Writable
<1>4. [content |-> c, good |-> TRUE] \in Version
  BY <1>2 DEF Version
<1>5. /\ versions' \in Seq(Version) /\ File' = File + 1 /\ File' \in 1 .. MaxVersions
      /\ versions'[File'] = [content |-> c, good |-> TRUE]
  BY <1>3, <1>4, AppendMovesFile DEF Inv
<1>6. /\ writing[w].pc = "write" /\ mu = w /\ mu' = None
      /\ writing' = [writing EXCEPT ![w] = [pc |-> "idle", plain |-> Empty]]
  BY <1>1 DEF Inv, WritersExclude, Set, Delete, Replace, Unlocked
<1>7. TypeOK'
  <2>1. writing' \in [Writers -> Writing] /\ mu' \in Writers \cup {None}
    BY <1>2, <1>6 DEF Inv, TypeOK, Writing
  <2> QED BY <1>2, <1>3, <1>5, <2>1 DEF Inv, TypeOK, Unread
<1>8. \A x \in Writers : writing'[x].pc = "idle"
  BY <1>6, NoneAssumption DEF Inv, TypeOK, WritersExclude
<1>9. WritersExclude' /\ WritersCurrent'
  BY <1>8 DEF WritersExclude, WritersCurrent
<1>10. StoreLosesNothing'
  <2> SUFFICES ASSUME handEdits' = 0 PROVE versions'[File'].content = wrote'
    BY DEF StoreLosesNothing
  <2>1. writing[w].plain = wrote
    BY <1>3, <1>6 DEF Inv, WritersCurrent
  <2>2. c = wrote'
    BY <1>1, <2>1
  <2>3. versions'[File'].content = c
    BY <1>5
  <2> QED BY <2>2, <2>3
<1> QED
  BY <1>3, <1>5, <1>7, <1>9, <1>10, ReadersKeepOrder DEF Inv

LEMMA HandEditInv ==
  ASSUME Inv, ~RotatedWhileStarting, NEW n \in Names, NEW good \in BOOLEAN,
         HandEdit(n, good)
  PROVE  Inv'
<1> DEFINE v == [content |-> [versions[File].content EXCEPT ![n] = File + 1],
                 good |-> good]
<1>1. File < MaxVersions /\ provider.pc # "stamp" /\ Unread
      /\ versions' = Append(versions, v) /\ UNCHANGED <<mu, writing, wrote>>
      /\ handEdits' = handEdits + 1 /\ handEdits < MaxHandEdits
  BY DEF HandEdit, Writable
<1>2. v \in Version
  <2>1. versions[File].content \in Contents /\ File + 1 \in 0 .. MaxVersions
    BY <1>1, FileIsAVersion, BoundsAssumption DEF Inv, Version
  <2> QED BY <2>1 DEF Version, Contents
<1>3. versions' \in Seq(Version) /\ File' = File + 1 /\ File' \in 1 .. MaxVersions
  BY <1>1, <1>2, AppendMovesFile DEF Inv
<1>4. handEdits' # 0 /\ handEdits' \in 0 .. MaxHandEdits
  BY <1>1, BoundsAssumption DEF Inv, TypeOK
<1>5. TypeOK'
  BY <1>1, <1>3, <1>4 DEF Inv, TypeOK, Unread
<1>6. WritersExclude' /\ WritersCurrent' /\ StoreLosesNothing'
  BY <1>1, <1>4 DEF Inv, WritersExclude, WritersCurrent, StoreLosesNothing
<1> QED
  BY <1>1, <1>3, <1>5, <1>6, ReadersKeepOrder DEF Inv

LEMMA NextInv ==
  ASSUME Inv, ~RotatedWhileStarting, [Next]_vars
  PROVE  Inv'
<1>0. Results \subseteq BOOLEAN
  BY DEF Results
<1>1. CASE \E ok \in Results : NewDecrypt(ok) \/ NewStamp(ok)
  BY <1>0, <1>1, NewInv
<1>2. CASE \E r \in Resolvers : ResolveStep(r)
  BY <1>2, ResolveInv
<1>3. CASE \E w \in Writers : Lock(w) \/ WritesNothing(w) \/ \E ok \in Results : Open(w, ok)
  BY <1>0, <1>3, WriterKeepsFile
<1>4. CASE \E w \in Writers, n \in Names : Set(w, n) \/ Delete(w, n)
  BY <1>4, WriterReplaces
<1>5. CASE \E n \in Names, good \in BOOLEAN : HandEdit(n, good)
  BY <1>5, HandEditInv
<1>6. CASE UNCHANGED vars
  BY <1>6 DEF vars, Inv, TypeOK, File, ReloadsInOrder, ProviderInOrder, OnlyBuiltResolves,
              WritersExclude, WritersCurrent, StoreLosesNothing
<1> QED
  BY <1>1, <1>2, <1>3, <1>4, <1>5, <1>6 DEF Next

-----------------------------------------------------------------------------
(* The invariant holds in every state, as long as the vault is not         *)
(* rewritten between New's decryption and New's stat.                      *)
THEOREM InvAlways ==
  ASSUME ~RotatedWhileStarting
  PROVE  Spec => []Inv
<1>1. Init => Inv
  BY InitInv
<1>2. Inv /\ [Next]_vars => Inv'
  BY NextInv
<1> QED
  BY <1>1, <1>2, PTL DEF Spec

(* The variables keep their types.                                         *)
THEOREM TypeCorrect ==
  ASSUME ~RotatedWhileStarting
  PROVE  Spec => []TypeOK
<1>1. Inv => TypeOK
  BY DEF Inv
<1> QED
  BY <1>1, InvAlways, PTL

(* A Provider whose stamp matches the file holds the file's secrets:       *)
(* however many reloads of however many versions overtake each other, no   *)
(* rotation is ever taken for one already read.                            *)
THEOREM MatchingStampIsCurrent ==
  ASSUME ~RotatedWhileStarting
  PROVE  Spec => []StampTellsContents
<1>1. Inv => StampTellsContents
  BY FileIsAVersion DEF Inv, TypeOK, Providers, Stamps, ProviderInOrder, StampTellsContents
<1> QED
  BY <1>1, InvAlways, PTL

(* With no hand edit, the vault holds exactly what the completed requests  *)
(* set and deleted, for any number of concurrent requests.                 *)
THEOREM NoRequestIsLost ==
  ASSUME ~RotatedWhileStarting
  PROVE  Spec => []StoreLosesNothing
<1>1. Inv => StoreLosesNothing
  BY DEF Inv
<1> QED
  BY <1>1, InvAlways, PTL

(* A stamp that matches means the file's secrets, and the file holds what  *)
(* the requests wrote, for any names, versions, resolvers and writers      *)
(* (reloadIfChanged, SetSecret, DeleteSecret).                             *)
THEOREM VaultStaysExact ==
  ASSUME ~RotatedWhileStarting
  PROVE  Spec => []VaultIsExact
  BY TypeCorrect, MatchingStampIsCurrent, NoRequestIsLost, PTL DEF VaultIsExact
=============================================================================
