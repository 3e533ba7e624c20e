-------------------------- MODULE QuarantineProofs --------------------------
(***************************************************************************)
(* What the quarantine guarantees for every number of upstreams, tools,    *)
(* definitions and admin processes.  Inv is inductive; the theorems of     *)
(* interest are its consequences.                                          *)
(***************************************************************************)
EXTENDS Quarantine, TLAPS

(* The empty fingerprint is the fingerprint of no definition (Hash).       *)
LEMMA NoHashIsNoFingerprint == NoHash \notin Hashes
  BY DEF NoHash, Hashes, Hash

(* One row changes and the fingerprints it named are the candidates: the   *)
(* table stays exact, with or without a newly kept definition.             *)
LEMMA PruneAfterOneRow ==
  ASSUME Inv, NEW k \in Keys, NEW r \in Row, NEW kept \in SUBSET Hashes,
         quarantined' = [quarantined EXCEPT ![k] = r],
         defs' = PruneDefinitions(defs \cup kept, quarantined',
                                  {quarantined[k].observed, quarantined[k].approved}),
         kept \subseteq {r.observed},
         r.observed \in defs \cup kept \cup {NoHash},
         r.approved \in defs \cup kept \cup {NoHash}
  PROVE  DefinitionsExact'
<1>1. quarantined'[k] = r /\ \A j \in Keys : j # k => quarantined'[j] = quarantined[j]
  BY DEF Inv, TypeOK
<1>2. defs = {h \in Hashes : Referenced(quarantined, h)}
  BY DEF Inv, DefinitionsExact
<1>3. ASSUME NEW h \in Hashes, Referenced(quarantined', h)
      PROVE  h \in defs \cup kept
  <2>1. PICK j \in Keys : quarantined'[j].approved = h \/ quarantined'[j].observed = h
    BY <1>3 DEF Referenced
  <2>2. CASE j = k
    BY <1>1, <2>1, <2>2, NoHashIsNoFingerprint
  <2>3. CASE j # k
    BY <1>1, <1>2, <2>1, <2>3 DEF Referenced
  <2> QED BY <2>2, <2>3
<1>4. ASSUME NEW h \in defs \cup kept
      PROVE  h \in {quarantined[k].observed, quarantined[k].approved} \/ Referenced(quarantined', h)
  <2>1. CASE h \in kept
    BY <1>1, <2>1 DEF Referenced
  <2>2. CASE h \in defs
    <3>1. PICK j \in Keys : quarantined[j].approved = h \/ quarantined[j].observed = h
      BY <1>2, <2>2 DEF Referenced
    <3> QED BY <1>1, <3>1 DEF Referenced
  <2> QED BY <1>4, <2>1, <2>2
<1> QED
  BY <1>2, <1>3, <1>4 DEF PruneDefinitions, DefinitionsExact

-----------------------------------------------------------------------------
(* The domain's transitions keep a row well typed and coherent.            *)

LEMMA NewToolCoherent ==
  ASSUME NEW h \in Hashes, NEW class \in Classes
  PROVE  NewTool(h, class) \in Row /\ RowCoherent(NewTool(h, class))
  BY NoHashIsNoFingerprint DEF NewTool, NoRow, Row, RowCoherent, Present, Classes

LEMMA ObservedCoherent ==
  ASSUME NEW r \in Row, RowCoherent(r), Present(r),
         NEW h \in Hashes, NEW class \in Classes
  PROVE  Observed(r, h, class) \in Row /\ RowCoherent(Observed(r, h, class))
  BY NoHashIsNoFingerprint DEF Observed, Row, RowCoherent, Present

LEMMA ApprovedCoherent ==
  ASSUME NEW r \in Row, RowCoherent(r), Present(r)
  PROVE  Approved(r) \in Row /\ RowCoherent(Approved(r))
  BY DEF Approved, Row, RowCoherent, Present

LEMMA ClearedCoherent ==
  ASSUME NEW r \in Row, RowCoherent(r), Clearable(r)
  PROVE  Cleared(r) \in Row /\ RowCoherent(Cleared(r))
  BY DEF Cleared, Clearable, Row, RowCoherent, Present

LEMMA RevokedCoherent ==
  ASSUME NEW r \in Row, RowCoherent(r), Revocable(r)
  PROVE  Revoked(r) \in Row /\ RowCoherent(Revoked(r))
  BY DEF Revoked, Revocable, Row, RowCoherent, Present

LEMMA NoRowCoherent == NoRow \in Row /\ RowCoherent(NoRow)
  BY DEF NoRow, Row, RowCoherent, Present, Classes

-----------------------------------------------------------------------------
(* Inv is inductive: one lemma per action.                                 *)

LEMMA InitInv == Init => Inv
<1> SUFFICES ASSUME Init PROVE Inv
  OBVIOUS
<1>1. \A k \in Keys : quarantined[k] = NoRow
  BY DEF Init
<1>2. TypeOK
  BY NoRowCoherent DEF Init, TypeOK, Session
<1>3. RowsCoherent
  BY <1>1, NoRowCoherent DEF RowsCoherent
<1>4. DefinitionsExact
  BY <1>1, NoHashIsNoFingerprint DEF Init, DefinitionsExact, Referenced, NoRow
<1>5. BaselinesReviewed /\ SessionsReviewed /\ ManifestsReviewed
  BY <1>1 DEF Init, BaselinesReviewed, SessionsReviewed, ManifestsReviewed, NoRow, NoAct
<1> QED
  BY <1>2, <1>3, <1>4, <1>5 DEF Inv

(* A step of the store alone: what is left to show is about the rows.      *)
LEMMA StoreStep ==
  ASSUME Inv, UNCHANGED <<reviewed, manifests>>,
         \/ UNCHANGED session
         \/ \E o \in Operators : session' = [session EXCEPT ![o] = NoAct],
         quarantined' \in [Keys -> Row], RowsCoherent', DefinitionsExact',
         BaselinesReviewed'
  PROVE  Inv'
<1>1. session' \in [Operators -> Session]
  BY DEF Inv, TypeOK, Session
<1>2. TypeOK'
  BY <1>1 DEF Inv, TypeOK, DefinitionsExact
<1>3. SessionsReviewed'
  BY DEF Inv, TypeOK, SessionsReviewed, NoAct
<1>4. ManifestsReviewed'
  BY DEF Inv, ManifestsReviewed
<1> QED
  BY <1>2, <1>3, <1>4 DEF Inv

(* A row written by Write or Observe: one row moves, the definitions table *)
(* follows it.                                                             *)
LEMMA OneRowStep ==
  ASSUME Inv, NEW k \in Keys, NEW r \in Row, RowCoherent(r),
         quarantined' = [quarantined EXCEPT ![k] = r],
         r.approved # NoHash => <<k, r.approved>> \in reviewed'
  PROVE  /\ quarantined' \in [Keys -> Row]
         /\ RowsCoherent'
         /\ reviewed \subseteq reviewed' => BaselinesReviewed'
<1>1. quarantined' \in [Keys -> Row]
  BY DEF Inv, TypeOK
<1>2. quarantined'[k] = r /\ \A j \in Keys : j # k => quarantined'[j] = quarantined[j]
  BY DEF Inv, TypeOK
<1>3. RowsCoherent'
  BY <1>2 DEF Inv, RowsCoherent
<1>4. ASSUME reviewed \subseteq reviewed' PROVE BaselinesReviewed'
  BY <1>2, <1>4 DEF Inv, BaselinesReviewed
<1> QED
  BY <1>1, <1>3, <1>4

LEMMA ObserveStep ==
  ASSUME Inv, NEW k \in Keys, NEW t \in Identities, NEW class \in Classes,
         Observe(k, t, class)
  PROVE  Inv'
<1> DEFINE h == Hash(t)
<1>1. h \in Hashes
  BY DEF Hashes
<1>2. quarantined[k] \in Row /\ RowCoherent(quarantined[k])
  BY DEF Inv, TypeOK, RowsCoherent
<1>3. defs = {x \in Hashes : Referenced(quarantined, x)}
  BY DEF Inv, DefinitionsExact
<1>4. CASE Present(quarantined[k])
  <2> DEFINE r == Observed(quarantined[k], h, class)
  <2>1. r \in Row /\ RowCoherent(r)
    BY <1>1, <1>2, <1>4, ObservedCoherent
  <2>2. /\ quarantined' = [quarantined EXCEPT ![k] = r]
        /\ defs' = PruneDefinitions(defs \cup {h}, quarantined', {quarantined[k].observed, quarantined[k].approved})
        /\ UNCHANGED <<session, reviewed, manifests>>
    BY <1>4 DEF Observe
  <2>3. r.observed = h /\ r.approved = quarantined[k].approved
    BY <1>2 DEF Observed, Row
  <2>4. r.approved # NoHash => <<k, r.approved>> \in reviewed'
    BY <2>2, <2>3 DEF Inv, BaselinesReviewed
  <2>5. r.approved \in defs \cup {NoHash}
    BY <1>2, <1>3, <2>3 DEF Referenced, Row
  <2> HIDE DEF r, h
  <2>6. quarantined' \in [Keys -> Row] /\ RowsCoherent' /\ BaselinesReviewed'
    BY <2>1, <2>2, <2>4, OneRowStep
  <2>7. DefinitionsExact'
    BY <1>1, <2>1, <2>2, <2>3, <2>5, PruneAfterOneRow
  <2> QED
    BY <2>2, <2>6, <2>7, StoreStep
<1>5. CASE ~Present(quarantined[k])
  <2> DEFINE r == NewTool(h, class)
  <2>1. r \in Row /\ RowCoherent(r)
    BY <1>1, NewToolCoherent
  <2>2. /\ quarantined' = [quarantined EXCEPT ![k] = r]
        /\ defs' = defs \cup {h}
        /\ UNCHANGED <<session, reviewed, manifests>>
    BY <1>5 DEF Observe
  <2>3. r.observed = h /\ r.approved = NoHash
    BY DEF NewTool, NoRow
  <2>4. quarantined[k].observed = NoHash /\ quarantined[k].approved = NoHash
    BY <1>2, <1>5 DEF RowCoherent, Present
  <2> HIDE DEF r, h
  <2>5. quarantined' \in [Keys -> Row] /\ RowsCoherent' /\ BaselinesReviewed'
    BY <2>1, <2>2, <2>3, OneRowStep
  <2>6. quarantined'[k] = r /\ \A j \in Keys : j # k => quarantined'[j] = quarantined[j]
    BY <2>2 DEF Inv, TypeOK
  <2>7. DefinitionsExact'
    BY <1>1, <1>3, <2>2, <2>3, <2>4, <2>6, NoHashIsNoFingerprint
       DEF DefinitionsExact, Referenced
  <2> QED
    BY <2>2, <2>5, <2>7, StoreStep
<1> QED
  BY <1>4, <1>5

(* The acts that end in Write: an approval, a revocation.                  *)
LEMMA WriteStep ==
  ASSUME Inv, NEW o \in Operators, NEW k \in Keys, NEW r \in Row,
         RowCoherent(r), Write(k, r), Finish(o),
         r.observed = quarantined[k].observed,
         r.approved \in {NoHash, quarantined[k].observed},
         r.approved # NoHash => <<k, r.approved>> \in reviewed
  PROVE  Inv'
<1>1. quarantined[k] \in Row
  BY DEF Inv, TypeOK
<1>2. /\ quarantined' = [quarantined EXCEPT ![k] = r]
      /\ defs' = PruneDefinitions(defs, quarantined', {quarantined[k].approved, quarantined[k].observed})
      /\ session' = [session EXCEPT ![o] = NoAct]
      /\ UNCHANGED <<reviewed, manifests>>
  BY DEF Write, Finish
<1>3. quarantined' \in [Keys -> Row] /\ RowsCoherent' /\ BaselinesReviewed'
  BY <1>2, OneRowStep
<1>4. quarantined[k].observed \in defs \cup {NoHash}
  BY <1>1 DEF Inv, DefinitionsExact, Referenced, Row
<1>5. defs' = PruneDefinitions(defs \cup {}, quarantined',
                               {quarantined[k].observed, quarantined[k].approved})
  BY <1>2 DEF PruneDefinitions
<1>6. r.observed \in defs \cup {} \cup {NoHash} /\ r.approved \in defs \cup {} \cup {NoHash}
  BY <1>4
<1>7. {} \in SUBSET Hashes /\ {} \subseteq {r.observed}
  OBVIOUS
<1>8. DefinitionsExact'
  BY <1>2, <1>5, <1>6, <1>7, PruneAfterOneRow
<1> QED
  BY <1>2, <1>3, <1>8, StoreStep

LEMMA RefuseStep ==
  ASSUME Inv, NEW o \in Operators, Refuse(o)
  PROVE  Inv'
<1>1. /\ session' = [session EXCEPT ![o] = NoAct]
      /\ UNCHANGED <<quarantined, defs, reviewed, manifests>>
  BY DEF Refuse, Finish
<1>2. quarantined' \in [Keys -> Row] /\ RowsCoherent' /\ DefinitionsExact' /\ BaselinesReviewed'
  BY <1>1 DEF Inv, TypeOK, RowsCoherent, DefinitionsExact, BaselinesReviewed
<1> QED
  BY <1>1, <1>2, StoreStep

LEMMA CommitApproveToolStep ==
  ASSUME Inv, NEW o \in Operators, CommitApproveTool(o)
  PROVE  Inv'
<1> DEFINE k == session[o].key
<1>1. k \in Keys /\ <<k, session[o].hash>> \in reviewed
  BY DEF Inv, TypeOK, Session, NoAct, SessionsReviewed, CommitApproveTool
<1>2. quarantined[k] \in Row /\ RowCoherent(quarantined[k])
  BY <1>1 DEF Inv, TypeOK, RowsCoherent
<1>3. CASE Present(quarantined[k]) /\ quarantined[k].observed = session[o].hash
  <2> DEFINE r == Approved(quarantined[k])
  <2>1. r \in Row /\ RowCoherent(r)
    BY <1>2, <1>3, ApprovedCoherent
  <2>2. r.observed = quarantined[k].observed /\ r.approved = quarantined[k].observed
    BY <1>2 DEF Approved, Row
  <2>3. Write(k, r) /\ Finish(o)
    BY <1>3 DEF CommitApproveTool
  <2> HIDE DEF r, k
  <2> QED
    BY <1>1, <1>3, <2>1, <2>2, <2>3, WriteStep
<1>4. CASE ~(Present(quarantined[k]) /\ quarantined[k].observed = session[o].hash)
  BY <1>4, RefuseStep DEF CommitApproveTool
<1> QED
  BY <1>3, <1>4

LEMMA CommitRevokeToolStep ==
  ASSUME Inv, NEW o \in Operators, CommitRevokeTool(o)
  PROVE  Inv'
<1> DEFINE k == session[o].key
<1>1. k \in Keys
  BY DEF Inv, TypeOK, Session, NoAct, CommitRevokeTool
<1>2. quarantined[k] \in Row /\ RowCoherent(quarantined[k])
  BY <1>1 DEF Inv, TypeOK, RowsCoherent
<1>3. CASE Revocable(quarantined[k])
  <2> DEFINE r == Revoked(quarantined[k])
  <2>1. r \in Row /\ RowCoherent(r)
    BY <1>2, <1>3, RevokedCoherent
  <2>2. r.observed = quarantined[k].observed /\ r.approved = NoHash
    BY <1>2 DEF Revoked, Row
  <2>3. Write(k, r) /\ Finish(o)
    BY <1>3 DEF CommitRevokeTool
  <2> HIDE DEF r, k
  <2> QED
    BY <1>1, <2>1, <2>2, <2>3, WriteStep
<1>4. CASE ~Revocable(quarantined[k])
  BY <1>4, RefuseStep DEF CommitRevokeTool
<1> QED
  BY <1>3, <1>4

LEMMA CommitClearToolStep ==
  ASSUME Inv, NEW o \in Operators, CommitClearTool(o)
  PROVE  Inv'
<1> DEFINE k == session[o].key
<1>1. k \in Keys
  BY DEF Inv, TypeOK, Session, NoAct, CommitClearTool
<1>2. quarantined[k] \in Row /\ RowCoherent(quarantined[k])
  BY <1>1 DEF Inv, TypeOK, RowsCoherent
<1>3. CASE Clearable(quarantined[k])
  <2> DEFINE r == Cleared(quarantined[k])
  <2>1. r \in Row /\ RowCoherent(r)
    BY <1>2, <1>3, ClearedCoherent
  <2>2. r.observed = quarantined[k].observed /\ r.approved = quarantined[k].approved
    BY <1>2 DEF Cleared, Row
  <2>3. quarantined' = [quarantined EXCEPT ![k] = r] /\ UNCHANGED defs /\ Finish(o)
    BY <1>3 DEF CommitClearTool
  <2> HIDE DEF r, k
  <2>4. quarantined' \in [Keys -> Row] /\ RowsCoherent' /\ BaselinesReviewed'
    BY <1>1, <2>1, <2>2, <2>3, OneRowStep DEF Inv, BaselinesReviewed, Finish
  <2>5. \A j \in Keys : /\ quarantined'[j].approved = quarantined[j].approved
                        /\ quarantined'[j].observed = quarantined[j].observed
    BY <1>1, <2>2, <2>3 DEF Inv, TypeOK
  <2>6. DefinitionsExact'
    BY <2>3, <2>5 DEF Inv, DefinitionsExact, Referenced
  <2> QED
    BY <2>3, <2>4, <2>6, StoreStep DEF Finish
<1>4. CASE ~Clearable(quarantined[k])
  BY <1>4, RefuseStep DEF CommitClearTool
<1> QED
  BY <1>3, <1>4

(* The batch approval: the manifest equality in the transaction is what    *)
(* carries "was shown" from the manifest to every row it approves.         *)
LEMMA CommitApproveToolSetStep ==
  ASSUME Inv, NEW o \in Operators, CommitApproveToolSet(o)
  PROVE  Inv'
<1> DEFINE s   == session[o].server
           set == ReviewSet(quarantined, s)
           m   == session[o].manifest
<1>1. s \in Servers /\ <<s, m>> \in manifests
  BY DEF Inv, TypeOK, Session, NoAct, SessionsReviewed, CommitApproveToolSet
<1>2. \A k \in Keys : quarantined[k] \in Row /\ RowCoherent(quarantined[k])
  BY DEF Inv, TypeOK, RowsCoherent
<1>3. CASE set # {} /\ Manifest(quarantined, s) = m
  <2>1. /\ quarantined' = [k \in Keys |-> IF k \in set THEN Approved(quarantined[k]) ELSE quarantined[k]]
        /\ defs' = PruneDefinitions(defs, quarantined',
                       UNION {{quarantined[k].approved, quarantined[k].observed} : k \in set})
        /\ Finish(o)
    BY <1>3 DEF CommitApproveToolSet
  <2>2. \A k \in set : k \in Keys /\ Present(quarantined[k]) /\ <<k, quarantined[k].observed>> \in reviewed
    <3>1. \A k \in set : k \in Keys /\ Present(quarantined[k])
      BY DEF ReviewSet, NeedsReview
    <3>2. \A k \in set : <<k, quarantined[k].status, quarantined[k].observed, quarantined[k].approved>> \in m
      BY <1>3 DEF Manifest
    <3>3. \A e \in m : <<e[1], e[3]>> \in reviewed
      BY <1>1 DEF Inv, ManifestsReviewed
    <3> QED BY <3>1, <3>2, <3>3
  <2>3. \A k \in set : /\ quarantined'[k] \in Row
                       /\ RowCoherent(quarantined'[k])
                       /\ quarantined'[k].observed = quarantined[k].observed
                       /\ quarantined'[k].approved = quarantined[k].observed
    <3> TAKE k \in set
    <3>1. quarantined'[k] = Approved(quarantined[k])
      BY <2>1, <2>2
    <3>2. Approved(quarantined[k]).observed = quarantined[k].observed /\ Approved(quarantined[k]).approved = quarantined[k].observed
      BY <1>2, <2>2 DEF Approved, Row
    <3> QED BY <1>2, <2>2, <3>1, <3>2, ApprovedCoherent
  <2>4. \A k \in Keys : k \notin set => quarantined'[k] = quarantined[k]
    BY <2>1
  <2> HIDE DEF set, s, m
  <2>5. quarantined' \in [Keys -> Row] /\ RowsCoherent'
    BY <1>2, <2>1, <2>3, <2>4 DEF RowsCoherent
  <2>6. BaselinesReviewed'
    BY <2>1, <2>2, <2>3, <2>4 DEF Inv, BaselinesReviewed, Finish
  <2>7. DefinitionsExact'
    <3>1. defs = {h \in Hashes : Referenced(quarantined, h)}
      BY DEF Inv, DefinitionsExact
    <3>2. ASSUME NEW h \in Hashes, Referenced(quarantined', h)
          PROVE  Referenced(quarantined, h)
      BY <2>3, <2>4, <3>2 DEF Referenced
    <3>3. ASSUME NEW h \in Hashes, Referenced(quarantined, h), ~Referenced(quarantined', h)
          PROVE  h \in UNION {{quarantined[k].approved, quarantined[k].observed} : k \in set}
      <4>1. PICK j \in Keys : quarantined[j].approved = h \/ quarantined[j].observed = h
        BY <3>3 DEF Referenced
      <4>2. j \in set
        BY <2>4, <3>3, <4>1 DEF Referenced
      <4> QED BY <4>1, <4>2
    <3> QED
      BY <2>1, <3>1, <3>2, <3>3 DEF PruneDefinitions, DefinitionsExact
  <2> QED
    BY <2>1, <2>5, <2>6, <2>7, StoreStep DEF Finish
<1>4. CASE ~(set # {} /\ Manifest(quarantined, s) = m)
  BY <1>4, RefuseStep DEF CommitApproveToolSet
<1> QED
  BY <1>3, <1>4

LEMMA ForgetStep ==
  ASSUME Inv, NEW s \in Servers, ForgetTools(s)
  PROVE  Inv'
<1>1. \A k \in Keys : quarantined'[k] = NoRow \/ quarantined'[k] = quarantined[k]
  BY DEF ForgetTools
<1>2. quarantined' \in [Keys -> Row] /\ RowsCoherent'
  BY <1>1, NoRowCoherent DEF ForgetTools, Inv, TypeOK, RowsCoherent
<1>3. BaselinesReviewed'
  BY <1>1 DEF ForgetTools, Inv, BaselinesReviewed, NoRow
<1>4. ASSUME NEW h \in Hashes, Referenced(quarantined', h)
      PROVE  Referenced(quarantined, h)
  BY <1>1, <1>4, NoHashIsNoFingerprint DEF Referenced, NoRow
<1>5. DefinitionsExact'
  BY <1>4 DEF ForgetTools, Inv, DefinitionsExact
<1> QED
  BY <1>2, <1>3, <1>5, StoreStep DEF ForgetTools

LEMMA ReviewToolStep ==
  ASSUME Inv, NEW k \in Keys, ReviewTool(k)
  PROVE  Inv'
<1>1. reviewed \subseteq reviewed' /\ reviewed' \subseteq Keys \X Hashes
  BY DEF ReviewTool, Inv, TypeOK
<1>2. UNCHANGED <<quarantined, defs, session, manifests>>
  BY DEF ReviewTool
<1> QED
  BY <1>1, <1>2 DEF Inv, TypeOK, RowsCoherent, DefinitionsExact,
     BaselinesReviewed, SessionsReviewed, ManifestsReviewed

LEMMA ReviewToolSetStep ==
  ASSUME Inv, NEW s \in Servers, ReviewToolSet(s)
  PROVE  Inv'
<1> DEFINE set == ReviewSet(quarantined, s)
<1>1. \A k \in set : /\ k \in Keys
                     /\ quarantined[k].status \in {"pending", "changed"}
                     /\ quarantined[k].observed \in Hashes
                     /\ quarantined[k].approved \in Hashes \cup {NoHash}
  BY DEF Inv, TypeOK, Row, RowsCoherent, RowCoherent, ReviewSet, NeedsReview, Present
<1>2. \A k \in set : quarantined[k].observed \in defs
  BY <1>1 DEF Inv, DefinitionsExact, Referenced
<1>3. UNCHANGED <<quarantined, defs, session>>
  BY DEF ReviewToolSet
<1>4. reviewed' = reviewed \cup {<<k, quarantined[k].observed>> : k \in set}
  BY <1>2 DEF ReviewToolSet
<1>5. reviewed \subseteq reviewed' /\ reviewed' \subseteq Keys \X Hashes
  BY <1>1, <1>4 DEF Inv, TypeOK
<1>6. Manifest(quarantined, s) \in SUBSET Entry
  BY <1>1 DEF Manifest, Entry
<1>7. manifests' = manifests \cup {<<s, Manifest(quarantined, s)>>}
  BY DEF ReviewToolSet
<1>8. TypeOK'
  BY <1>3, <1>5, <1>6, <1>7 DEF Inv, TypeOK
<1>9. ManifestsReviewed'
  <2>1. \A e \in Manifest(quarantined, s) : <<e[1], e[3]>> \in reviewed'
    BY <1>4 DEF Manifest
  <2>2. SUFFICES ASSUME NEW m \in manifests', NEW e \in m[2]
                 PROVE  <<e[1], e[3]>> \in reviewed'
    BY DEF ManifestsReviewed
  <2>3. CASE m \in manifests
    BY <1>5, <2>3 DEF Inv, ManifestsReviewed
  <2>4. CASE m = <<s, Manifest(quarantined, s)>>
    BY <2>1, <2>4
  <2> QED BY <1>7, <2>3, <2>4
<1>10. SessionsReviewed' /\ BaselinesReviewed'
  BY <1>3, <1>5, <1>7 DEF Inv, SessionsReviewed, BaselinesReviewed
<1> QED
  BY <1>3, <1>8, <1>9, <1>10 DEF Inv, RowsCoherent, DefinitionsExact

(* The reads that begin an act change only the act.                        *)
LEMMA StartStep ==
  ASSUME Inv, NEW o \in Operators, NEW new \in Session, Start(o, new),
         new.act = "approve" => <<new.key, new.hash>> \in reviewed,
         new.act = "approveSet" => <<new.server, new.manifest>> \in manifests
  PROVE  Inv'
<1>1. UNCHANGED <<quarantined, defs, reviewed, manifests>>
  BY DEF Start
<1>2. session' \in [Operators -> Session] /\ SessionsReviewed'
  BY DEF Start, Inv, TypeOK, SessionsReviewed
<1> QED
  BY <1>1, <1>2 DEF Inv, TypeOK, RowsCoherent, DefinitionsExact,
     BaselinesReviewed, ManifestsReviewed

LEMMA BeginStep ==
  ASSUME Inv, NEW o \in Operators,
         \/ \E k \in Keys, h \in Hashes : BeginApproveTool(o, k, h)
         \/ \E m \in manifests : BeginApproveToolSet(o, m[1], m[2])
         \/ \E k \in Keys : BeginRevokeTool(o, k)
         \/ \E k \in Keys : BeginClearTool(o, k)
  PROVE  Inv'
<1>1. CASE \E k \in Keys, h \in Hashes : BeginApproveTool(o, k, h)
  <2>1. PICK k \in Keys, h \in Hashes : BeginApproveTool(o, k, h)
    BY <1>1
  <2> DEFINE new == [act |-> "approve", key |-> k, hash |-> h]
  <2>2. new \in Session /\ new.act = "approve" /\ new.key = k /\ new.hash = h
    BY DEF Session
  <2>3. Start(o, new) /\ <<k, h>> \in reviewed
    BY <2>1 DEF BeginApproveTool
  <2> HIDE DEF new
  <2> QED BY <2>2, <2>3, StartStep
<1>2. CASE \E m \in manifests : BeginApproveToolSet(o, m[1], m[2])
  <2>1. PICK m \in manifests : BeginApproveToolSet(o, m[1], m[2])
    BY <1>2
  <2> DEFINE new == [act |-> "approveSet", server |-> m[1], manifest |-> m[2]]
  <2>2. m[1] \in Servers /\ m[2] \in SUBSET Entry
    BY <2>1 DEF Inv, TypeOK
  <2>3. new \in Session /\ new.act = "approveSet" /\ new.server = m[1] /\ new.manifest = m[2]
    BY <2>2 DEF Session
  <2>4. Start(o, new) /\ <<m[1], m[2]>> \in manifests
    BY <2>1 DEF BeginApproveToolSet
  <2> HIDE DEF new
  <2> QED BY <2>3, <2>4, StartStep
<1>3. CASE \E k \in Keys : BeginRevokeTool(o, k)
  <2>1. PICK k \in Keys : BeginRevokeTool(o, k)
    BY <1>3
  <2> DEFINE new == [act |-> "revoke", key |-> k, hash |-> quarantined[k].approved]
  <2>2. quarantined[k].approved \in Hashes \cup {NoHash}
    BY DEF Inv, TypeOK, Row
  <2>3. new \in Session /\ new.act = "revoke"
    BY <2>2 DEF Session
  <2>4. Start(o, new)
    BY <2>1 DEF BeginRevokeTool
  <2> HIDE DEF new
  <2> QED BY <2>3, <2>4, StartStep
<1>4. CASE \E k \in Keys : BeginClearTool(o, k)
  <2>1. PICK k \in Keys : BeginClearTool(o, k)
    BY <1>4
  <2> DEFINE new == [act |-> "clear", key |-> k, hash |-> quarantined[k].approved]
  <2>2. quarantined[k].approved \in Hashes \cup {NoHash}
    BY DEF Inv, TypeOK, Row
  <2>3. new \in Session /\ new.act = "clear"
    BY <2>2 DEF Session
  <2>4. Start(o, new)
    BY <2>1 DEF BeginClearTool
  <2> HIDE DEF new
  <2> QED BY <2>3, <2>4, StartStep
<1> QED BY <1>1, <1>2, <1>3, <1>4

LEMMA NextInv == Inv /\ [Next]_vars => Inv'
<1> SUFFICES ASSUME Inv, [Next]_vars PROVE Inv'
  OBVIOUS
<1>1. CASE Discovery
  BY <1>1, ObserveStep DEF Discovery
<1>2. CASE \E s \in Servers : ForgetTools(s)
  BY <1>2, ForgetStep
<1>3. CASE \E k \in Keys : ReviewTool(k)
  BY <1>3, ReviewToolStep
<1>4. CASE \E s \in Servers : ReviewToolSet(s)
  BY <1>4, ReviewToolSetStep
<1>5. CASE \E o \in Operators : OperatorStep(o)
  BY <1>5, BeginStep, CommitApproveToolStep, CommitApproveToolSetStep,
     CommitRevokeToolStep, CommitClearToolStep DEF OperatorStep
<1>6. CASE UNCHANGED vars
  BY <1>6 DEF vars, Inv, TypeOK, RowsCoherent, DefinitionsExact,
     BaselinesReviewed, SessionsReviewed, ManifestsReviewed
<1> QED
  BY <1>1, <1>2, <1>3, <1>4, <1>5, <1>6 DEF Next

-----------------------------------------------------------------------------
(* Inv holds in every reachable state.                                     *)
THEOREM InvAlways == Spec => []Inv
  BY InitInv, NextInv, PTL DEF Spec

(* The store's tables, the acts in progress and the histories keep their   *)
(* types.                                                                  *)
THEOREM TypeCorrect == Spec => []TypeOK
<1>1. Inv => TypeOK
  BY DEF Inv
<1> QED
  BY <1>1, InvAlways, PTL

(* Every row is coherent, so a clearance never outlives the approval it is *)
(* a clearance of: the invariant Tool.SensitiveClearedHash documents.      *)
THEOREM RowsStayCoherent == Spec => []RowsCoherent
<1>1. Inv => RowsCoherent
  BY DEF Inv
<1> QED
  BY <1>1, InvAlways, PTL

(* The definitions table is exactly what the rows reference, so what is    *)
(* advertised and what was approved can always be shown, and nothing else  *)
(* accumulates (keepDefinition, pruneDefinitions, ForgetTools).            *)
THEOREM DefinitionsStayExact == Spec => []DefinitionsExact
<1>1. Inv => DefinitionsExact
  BY DEF Inv
<1> QED
  BY <1>1, InvAlways, PTL

(* Nothing is usable that no operator was shown: the promise of Usable     *)
(* under every interleaving of discovery and operator acts.                *)
THEOREM OnlyReviewedIsUsable == Spec => []UsableWasReviewed
<1>1. Inv => UsableWasReviewed
  BY DEF Inv, BaselinesReviewed, UsableWasReviewed, Usable, ApprovedAsAdvertised
<1> QED
  BY <1>1, InvAlways, PTL

(* What becomes of one row in one step, whoever takes it.                  *)
LEMMA RowStep ==
  ASSUME Inv, Next, NEW k \in Keys
  PROVE  \/ quarantined'[k] = quarantined[k]
         \/ quarantined'[k] = NoRow /\ UNCHANGED session
         \/ /\ \E h \in Hashes, class \in Classes :
                  quarantined'[k] = IF Present(quarantined[k]) THEN Observed(quarantined[k], h, class)
                                                 ELSE NewTool(h, class)
            /\ UNCHANGED session
         \/ /\ quarantined'[k] = Approved(quarantined[k])
            /\ <<k, quarantined[k].observed>> \in reviewed
            /\ session' # session
         \/ Revocable(quarantined[k]) /\ quarantined'[k] = Revoked(quarantined[k]) /\ session' # session
         \/ Clearable(quarantined[k]) /\ quarantined'[k] = Cleared(quarantined[k]) /\ session' # session
<1>1. CASE Discovery
  <2>1. PICK j \in Keys, t \in Identities, class \in Classes : Observe(j, t, class)
    BY <1>1 DEF Discovery
  <2>2. Hash(t) \in Hashes
    BY DEF Hashes
  <2>3. CASE j = k
    BY <2>1, <2>2, <2>3 DEF Observe, Inv, TypeOK
  <2>4. CASE j # k
    BY <2>1, <2>4 DEF Observe, Inv, TypeOK
  <2> QED BY <2>3, <2>4
<1>2. CASE \E s \in Servers : ForgetTools(s)
  BY <1>2 DEF ForgetTools
<1>3. CASE \/ \E j \in Keys : ReviewTool(j)
           \/ \E s \in Servers : ReviewToolSet(s)
  BY <1>3 DEF ReviewTool, ReviewToolSet
<1>4. CASE \E o \in Operators : OperatorStep(o)
  <2>1. PICK o \in Operators : OperatorStep(o)
    BY <1>4
  <2>2. CASE UNCHANGED quarantined
    BY <2>2
  <2>3. CASE quarantined' # quarantined
    <3>1. \/ CommitApproveTool(o) \/ CommitApproveToolSet(o)
          \/ CommitRevokeTool(o) \/ CommitClearTool(o)
      BY <2>1, <2>3 DEF OperatorStep, BeginApproveTool, BeginApproveToolSet,
         BeginRevokeTool, BeginClearTool, Start
    <3>2. session[o].act # "idle"
      BY <3>1 DEF CommitApproveTool, CommitApproveToolSet, CommitRevokeTool, CommitClearTool
    <3>3. ~Refuse(o)
      BY <2>3 DEF Refuse
    <3>4. session' = [session EXCEPT ![o] = NoAct]
      BY <3>1 DEF CommitApproveTool, CommitApproveToolSet, CommitRevokeTool,
         CommitClearTool, Finish, Refuse
    <3>5. session' # session
      <4>1. session'[o] = NoAct
        BY <3>4 DEF Inv, TypeOK
      <4> QED BY <3>2, <4>1 DEF NoAct
    <3>6. CASE CommitApproveTool(o)
      <4>1. /\ <<session[o].key, session[o].hash>> \in reviewed
            /\ session[o].key \in Keys
        BY <3>6 DEF CommitApproveTool, Inv, SessionsReviewed, TypeOK, Session, NoAct
      <4>2. /\ quarantined[session[o].key].observed = session[o].hash
            /\ quarantined' = [quarantined EXCEPT ![session[o].key] = Approved(quarantined[session[o].key])]
        BY <3>3, <3>6 DEF CommitApproveTool, Write
      <4> QED BY <3>5, <4>1, <4>2 DEF Inv, TypeOK
    <3>7. CASE CommitApproveToolSet(o)
      <4> DEFINE s == session[o].server
      <4>1. <<s, session[o].manifest>> \in manifests
        BY <3>7 DEF CommitApproveToolSet, Inv, SessionsReviewed
      <4>2. Manifest(quarantined, s) = session[o].manifest
        BY <3>3, <3>7 DEF CommitApproveToolSet
      <4>3. \A e \in Manifest(quarantined, s) : <<e[1], e[3]>> \in reviewed
        BY <4>1, <4>2 DEF Inv, ManifestsReviewed
      <4>4. k \in ReviewSet(quarantined, s) => <<k, quarantined[k].observed>> \in reviewed
        <5>1. k \in ReviewSet(quarantined, s) =>
                <<k, quarantined[k].status, quarantined[k].observed, quarantined[k].approved>> \in Manifest(quarantined, s)
          BY DEF Manifest
        <5> QED BY <4>3, <5>1
      <4>5. quarantined' = [j \in Keys |-> IF j \in ReviewSet(quarantined, s) THEN Approved(quarantined[j]) ELSE quarantined[j]]
        BY <3>3, <3>7 DEF CommitApproveToolSet
      <4> QED BY <3>5, <4>4, <4>5
    <3>8. CASE CommitRevokeTool(o)
      <4>1. /\ Revocable(quarantined[session[o].key])
            /\ quarantined' = [quarantined EXCEPT ![session[o].key] = Revoked(quarantined[session[o].key])]
        BY <3>3, <3>8 DEF CommitRevokeTool, Write
      <4> QED BY <3>5, <4>1 DEF Inv, TypeOK
    <3>9. CASE CommitClearTool(o)
      <4>1. /\ Clearable(quarantined[session[o].key])
            /\ quarantined' = [quarantined EXCEPT ![session[o].key] = Cleared(quarantined[session[o].key])]
        BY <3>3, <3>9 DEF CommitClearTool
      <4> QED BY <3>5, <4>1 DEF Inv, TypeOK
    <3> QED BY <3>1, <3>6, <3>7, <3>8, <3>9
  <2> QED BY <2>2, <2>3
<1> QED
  BY <1>1, <1>2, <1>3, <1>4 DEF Next

(* A changed tool leaves that state only by an approval of the definition  *)
(* last observed, which was shown, or by being forgotten; a definition     *)
(* that reverts does not un-quarantine itself (Observed, Revoked).         *)
THEOREM ChangedStaysChanged == Spec => ChangedIsSticky
<1>1. ASSUME Inv, [Next]_vars
      PROVE  [\A k \in Keys :
                (quarantined[k].status = "changed" /\ quarantined'[k].status # "changed") =>
                   \/ quarantined'[k].status = "absent"
                   \/ /\ quarantined'[k].status = "approved"
                      /\ quarantined'[k].observed = quarantined[k].observed
                      /\ <<k, quarantined[k].observed>> \in reviewed
             ]_vars
  <2>1. SUFFICES ASSUME Next, NEW k \in Keys,
                        quarantined[k].status = "changed", quarantined'[k].status # "changed"
                 PROVE  \/ quarantined'[k].status = "absent"
                        \/ /\ quarantined'[k].status = "approved"
                           /\ quarantined'[k].observed = quarantined[k].observed
                           /\ <<k, quarantined[k].observed>> \in reviewed
    BY <1>1
  <2>2. quarantined[k] \in Row
    BY <1>1 DEF Inv, TypeOK
  <2>3. CASE quarantined'[k] = NoRow
    BY <2>3 DEF NoRow
  <2>4. \A h \in Hashes, class \in Classes :
           Present(quarantined[k]) /\ Observed(quarantined[k], h, class).status = "changed"
    BY <2>1, <2>2 DEF Observed, Present, Row
  <2>5. CASE quarantined'[k] = Approved(quarantined[k]) /\ <<k, quarantined[k].observed>> \in reviewed
    BY <2>2, <2>5 DEF Approved, Row
  <2>6. ~Revocable(quarantined[k]) /\ ~Clearable(quarantined[k])
    BY <2>1 DEF Revocable, Clearable
  <2> QED
    BY <1>1, <2>1, <2>3, <2>4, <2>5, <2>6, RowStep
<1> QED
  BY <1>1, InvAlways, PTL DEF Spec, ChangedIsSticky

(* A sensitive tool starts being served only by an operator's act, at the  *)
(* baseline it already had; discovery alone only by re-observing it safe.  *)
THEOREM ServingStartsWithOperator == Spec => ServingNeedsOperator
<1>1. ASSUME Inv, [Next]_vars
      PROVE  [\A k \in Keys :
                (~Usable(quarantined[k]) /\ Usable(quarantined'[k])) =>
                   /\ quarantined'[k].class = "sensitive" =>
                          session' # session /\ quarantined'[k].approved = quarantined[k].approved
                   /\ session' = session =>
                          quarantined[k].class = "sensitive" /\ quarantined'[k].class = "safe"
             ]_vars
  <2>1. SUFFICES ASSUME Next, NEW k \in Keys, ~Usable(quarantined[k]), Usable(quarantined'[k])
                 PROVE  /\ quarantined'[k].class = "sensitive" =>
                             session' # session /\ quarantined'[k].approved = quarantined[k].approved
                        /\ session' = session =>
                             quarantined[k].class = "sensitive" /\ quarantined'[k].class = "safe"
    BY <1>1
  <2>2. quarantined[k] \in Row /\ RowCoherent(quarantined[k])
    BY <1>1 DEF Inv, TypeOK, RowsCoherent
  <2>3. CASE quarantined'[k] = NoRow
    BY <2>1, <2>3 DEF NoRow, Usable, ApprovedAsAdvertised
  <2>4. CASE /\ UNCHANGED session
             /\ \E h \in Hashes, class \in Classes :
                  quarantined'[k] = IF Present(quarantined[k]) THEN Observed(quarantined[k], h, class)
                                                 ELSE NewTool(h, class)
    <3>1. PICK h \in Hashes, class \in Classes :
                  quarantined'[k] = IF Present(quarantined[k]) THEN Observed(quarantined[k], h, class)
                                                 ELSE NewTool(h, class)
      BY <2>4
    <3>2. Present(quarantined[k])
      BY <2>1, <3>1 DEF NewTool, NoRow, Usable, ApprovedAsAdvertised
    <3>3. quarantined[k].status = "approved" /\ h = quarantined[k].approved
      BY <2>1, <2>2, <3>1, <3>2 DEF Observed, Usable, ApprovedAsAdvertised, Row
    <3> QED
      BY <2>1, <2>2, <2>4, <3>1, <3>2, <3>3
         DEF Observed, Usable, ApprovedAsAdvertised, Row, RowCoherent, Classes
  <2>5. CASE quarantined'[k] = Approved(quarantined[k]) /\ session' # session
    BY <2>1, <2>2, <2>5 DEF Approved, Usable, ApprovedAsAdvertised, Row
  <2>6. CASE quarantined'[k] = Revoked(quarantined[k])
    BY <2>1, <2>2, <2>6 DEF Revoked, Usable, ApprovedAsAdvertised, Row
  <2>7. CASE quarantined'[k] = Cleared(quarantined[k]) /\ session' # session
    BY <2>2, <2>7 DEF Cleared, Row
  <2> QED
    BY <1>1, <2>1, <2>3, <2>4, <2>5, <2>6, <2>7, RowStep
<1> QED
  BY <1>1, InvAlways, PTL DEF Spec, ServingNeedsOperator

(* The tables of the store agree with themselves after every transaction,  *)
(* for any servers, tools, definitions and operators (keepDefinition,      *)
(* pruneDefinitions, the transitions of quarantine.go).                    *)
THEOREM StoreStaysCoherent == Spec => []StoreCoherent
  BY TypeCorrect, RowsStayCoherent, DefinitionsStayExact, PTL DEF StoreCoherent

(* No upstream talks its way out of a change or into being served          *)
(* (Observed, Approved, Cleared).                                          *)
THEOREM PeopleDecide == Spec => OperatorDecides
  BY ChangedStaysChanged, ServingStartsWithOperator DEF OperatorDecides
=============================================================================
