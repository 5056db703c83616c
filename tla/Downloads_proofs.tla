-------------------------- MODULE Downloads_proofs --------------------------
(***************************************************************************)
(* Download tokens, for any requests, caps and number of bakings: a count  *)
(* stays within its cap, files are counted, a revocation stands and the    *)
(* bytes are those of the checksum.                                        *)
(***************************************************************************)
EXTENDS Downloads, TLAPS, FiniteSetTheorems

\* A request that is being served with the token there is.
Busy(q) == reader[q].pc # "idle"
OfToken(q) == token # NoRow /\ reader[q].of = token.of
Opening == {q \in Readers : reader[q].pc = "open" /\ OfToken(q)}

\* While a baking is published there is neither artifact nor token, and the
\* requests there are hold tokens of earlier bakings.
Publishing ==
  /\ publisher = "save" => artifact = NoRow
  /\ publisher = "create" => artifact = NoRow /\ blob = baked
  /\ publisher = "issue" => blob = baked
  /\ publisher \in {"save", "create", "issue"} =>
       token = NoRow /\ \A q \in Readers : Busy(q) => reader[q].of < baked
Bounds ==
  /\ token # NoRow => token.of <= baked
  /\ \A q \in Readers : Busy(q) => reader[q].of <= baked

\* A request whose count is not written yet has read one that passed is_valid.
Passed ==
  \A q \in Readers :
    reader[q].pc \in {"token", "count"} /\ OfToken(q) => token.max = 0 \/ reader[q].uses < token.max

\* The files handed out and those that are about to be are counted.
Counted == token # NoRow /\ ~raced => served + Cardinality(Opening) <= token.uses
Unserved == token = NoRow => served = 0

\* The object is of the artifact's baking, or gone.
BlobOfArtifact == artifact # NoRow => blob \in {artifact.of, NoRow}

USE DownloadsAssumption DEF Artifact, Token, Reader, NoReader

LEMMA InitTypes == DownloadsInit => DownloadsTypeOK
<1>1. DownloadsInit => raced \in BOOLEAN
  BY Zenon DEF DownloadsInit
<1>2. DownloadsInit => reader \in [Readers -> Reader]
  BY DEF DownloadsInit
<1> QED
  BY <1>1, <1>2 DEF DownloadsInit, DownloadsTypeOK

LEMMA TypesKept == DownloadsTypeOK /\ [DownloadsNext]_downloadVars => DownloadsTypeOK'
<1> SUFFICES ASSUME DownloadsTypeOK, [DownloadsNext]_downloadVars PROVE DownloadsTypeOK'
  OBVIOUS
<1> USE DEF DownloadsTypeOK
<1>1. CASE DropArtifact
  <2>1. raced' \in BOOLEAN
    BY <1>1, Zenon DEF DropArtifact
  <2> QED
    BY <1>1, <2>1 DEF DropArtifact
<1>2. CASE SaveBlob
  BY <1>2 DEF SaveBlob
<1>3. CASE CreateArtifact
  BY <1>3 DEF CreateArtifact
<1>4. CASE IssueToken
  BY <1>4 DEF IssueToken
<1>5. CASE RemoveBlob
  BY <1>5 DEF RemoveBlob
<1>6. CASE RemoveRow
  BY <1>6 DEF RemoveRow
<1>7. CASE Revoke
  BY <1>7 DEF Revoke
<1>8. CASE ExpireToken
  BY <1>8 DEF ExpireToken
<1>9. CASE ExpireArtifact
  BY <1>9 DEF ExpireArtifact
<1>10. ASSUME NEW q \in Readers, ReadToken(q) PROVE DownloadsTypeOK'
  BY <1>10 DEF ReadToken
<1>11. ASSUME NEW q \in Readers, ReadArtifact(q) PROVE DownloadsTypeOK'
  BY <1>11 DEF ReadArtifact
<1>12. ASSUME NEW q \in Readers, SaveCount(q) PROVE DownloadsTypeOK'
  <2>1. raced' \in BOOLEAN
    BY <1>12, Zenon DEF SaveCount
  <2>2. reader' \in [Readers -> Reader]
    BY <1>12 DEF SaveCount
  <2>3. token' \in Token \cup {NoRow}
    BY <1>12 DEF SaveCount
  <2> QED
    BY <1>12, <2>1, <2>2, <2>3 DEF SaveCount
<1>13. ASSUME NEW q \in Readers, Open(q) PROVE DownloadsTypeOK'
  BY <1>13 DEF Open
<1>14. CASE UNCHANGED downloadVars
  BY <1>14 DEF downloadVars
<1> QED
  BY <1>1, <1>2, <1>3, <1>4, <1>5, <1>6, <1>7, <1>8, <1>9, <1>10, <1>11, <1>12, <1>13, <1>14
  DEF DownloadsNext

-----------------------------------------------------------------------------
(* Bakings do not mix. *)

LEMMA PublishingKept ==
  ASSUME DownloadsTypeOK, Publishing, Bounds, BlobOfArtifact, [DownloadsNext]_downloadVars
  PROVE  Publishing' /\ Bounds' /\ BlobOfArtifact'
<1> USE DEF DownloadsTypeOK, Publishing, Bounds, BlobOfArtifact, Busy
<1>1. CASE DropArtifact
  BY <1>1 DEF DropArtifact
<1>2. CASE SaveBlob
  BY <1>2 DEF SaveBlob
<1>3. CASE CreateArtifact
  BY <1>3 DEF CreateArtifact
<1>4. CASE IssueToken
  BY <1>4 DEF IssueToken
<1>5. CASE RemoveBlob
  BY <1>5 DEF RemoveBlob
<1>6. CASE RemoveRow
  BY <1>6 DEF RemoveRow
<1>7. CASE Revoke
  BY <1>7 DEF Revoke
<1>8. CASE ExpireToken
  BY <1>8 DEF ExpireToken
<1>9. CASE ExpireArtifact
  BY <1>9 DEF ExpireArtifact
<1>10. ASSUME NEW q \in Readers, ReadToken(q) PROVE Publishing' /\ Bounds' /\ BlobOfArtifact'
  BY <1>10 DEF ReadToken
<1>11. ASSUME NEW q \in Readers, ReadArtifact(q) PROVE Publishing' /\ Bounds' /\ BlobOfArtifact'
  BY <1>11 DEF ReadArtifact
<1>12. ASSUME NEW q \in Readers, SaveCount(q) PROVE Publishing' /\ Bounds' /\ BlobOfArtifact'
  BY <1>12 DEF SaveCount
<1>13. ASSUME NEW q \in Readers, Open(q) PROVE Publishing' /\ Bounds' /\ BlobOfArtifact'
  BY <1>13 DEF Open
<1>14. CASE UNCHANGED downloadVars
  BY <1>14 DEF downloadVars
<1> QED
  BY <1>1, <1>2, <1>3, <1>4, <1>5, <1>6, <1>7, <1>8, <1>9, <1>10, <1>11, <1>12, <1>13, <1>14
  DEF DownloadsNext

-----------------------------------------------------------------------------
(* The cap. *)

LEMMA CapKept ==
  ASSUME DownloadsTypeOK, Publishing, Bounds, Passed, CountWithinCap, [DownloadsNext]_downloadVars
  PROVE  Passed' /\ CountWithinCap'
<1> USE DEF DownloadsTypeOK, Passed, CountWithinCap, OfToken
<1>1. CASE DropArtifact \/ RemoveRow
  BY <1>1 DEF DropArtifact, RemoveRow
<1>2. CASE SaveBlob \/ CreateArtifact \/ RemoveBlob \/ ExpireArtifact \/ UNCHANGED downloadVars
  BY <1>2 DEF SaveBlob, CreateArtifact, RemoveBlob, ExpireArtifact, downloadVars
<1>3. CASE IssueToken
  BY <1>3 DEF IssueToken, Publishing, Busy
<1>4. CASE Revoke \/ ExpireToken
  BY <1>4 DEF Revoke, ExpireToken
<1>5. ASSUME NEW q \in Readers, ReadToken(q) PROVE Passed' /\ CountWithinCap'
  BY <1>5 DEF ReadToken, IsValid
<1>6. ASSUME NEW q \in Readers, ReadArtifact(q) PROVE Passed' /\ CountWithinCap'
  BY <1>6 DEF ReadArtifact
<1>7. ASSUME NEW q \in Readers, SaveCount(q) PROVE Passed' /\ CountWithinCap'
  BY <1>7 DEF SaveCount
<1>8. ASSUME NEW q \in Readers, Open(q) PROVE Passed' /\ CountWithinCap'
  BY <1>8 DEF Open
<1> QED
  BY <1>1, <1>2, <1>3, <1>4, <1>5, <1>6, <1>7, <1>8 DEF DownloadsNext

-----------------------------------------------------------------------------
(* Files and counts. *)

LEMMA OpeningIsFinite == IsFiniteSet(Opening) /\ Cardinality(Opening) \in Nat
BY FS_Subset, FS_CardinalityType DEF Opening

LEMMA CountedKept ==
  ASSUME DownloadsTypeOK, Publishing, Bounds, Counted, Unserved, [DownloadsNext]_downloadVars
  PROVE  Counted' /\ Unserved'
<1> USE DEF DownloadsTypeOK, Counted, Unserved
<1>1. CASE DropArtifact \/ RemoveRow
  BY <1>1 DEF DropArtifact, RemoveRow
<1>2. CASE SaveBlob \/ CreateArtifact \/ RemoveBlob \/ ExpireArtifact \/ UNCHANGED downloadVars
  <2>1. UNCHANGED <<token, reader, served, raced>>
    BY <1>2 DEF SaveBlob, CreateArtifact, RemoveBlob, ExpireArtifact, downloadVars
  <2> QED
    BY <2>1 DEF Opening, OfToken
<1>3. CASE IssueToken
  <2>1. Opening' = {}
    BY <1>3 DEF IssueToken, Publishing, Busy, Opening, OfToken
  <2>2. Cardinality(Opening') = 0
    BY <2>1, FS_EmptySet
  <2> QED
    BY <1>3, <2>2 DEF IssueToken, Publishing
<1>4. CASE Revoke \/ ExpireToken
  <2>1. /\ token \in Token /\ token' \in Token /\ token'.of = token.of /\ token'.uses = token.uses
        /\ UNCHANGED <<reader, served, raced>>
    BY <1>4 DEF Revoke, ExpireToken
  <2>2. Opening' = Opening
    BY <2>1 DEF Opening, OfToken
  <2> QED
    BY <2>1, <2>2
<1>5. ASSUME NEW q \in Readers, ReadToken(q) \/ ReadArtifact(q) PROVE Counted' /\ Unserved'
  <2>1. Opening' = Opening /\ UNCHANGED <<token, served, raced>>
    BY <1>5 DEF ReadToken, ReadArtifact, Opening, OfToken
  <2> QED
    BY <2>1
<1>6. ASSUME NEW q \in Readers, SaveCount(q) PROVE Counted' /\ Unserved'
  <2>1. CASE ~OfToken(q)
    <3>1. Opening' = Opening /\ UNCHANGED <<token, served, raced>>
      BY <1>6, <2>1 DEF SaveCount, Opening, OfToken
    <3> QED
      BY <3>1
  <2>2. CASE OfToken(q)
    <3>1. token \in Token /\ token' \in Token /\ token'.of = token.of /\ token'.uses = reader[q].uses + 1
      BY <1>6, <2>2 DEF SaveCount, OfToken
    <3>2. Opening' = Opening \cup {q} /\ q \notin Opening
      BY <1>6, <2>2, <3>1 DEF SaveCount, Opening, OfToken
    <3>3. Cardinality(Opening') = Cardinality(Opening) + 1
      BY <3>2, OpeningIsFinite, FS_AddElement
    <3>4. ~raced' => ~raced /\ token.uses = reader[q].uses
      BY <1>6, <2>2 DEF SaveCount, OfToken
    <3>5. served' = served
      BY <1>6 DEF SaveCount
    <3> QED
      BY <3>1, <3>3, <3>4, <3>5, OpeningIsFinite
  <2> QED
    BY <2>1, <2>2
<1>7. ASSUME NEW q \in Readers, Open(q) PROVE Counted' /\ Unserved'
  <2>1. UNCHANGED <<token, raced>> /\ reader' = [reader EXCEPT ![q] = NoReader]
    BY <1>7 DEF Open
  <2>2. Opening' = Opening \ {q}
    BY <2>1 DEF Opening, OfToken
  <2>3. CASE q \in Opening
    <3>1. Cardinality(Opening') = Cardinality(Opening) - 1
      BY <2>2, <2>3, OpeningIsFinite, FS_RemoveElement
    <3>2. served' \in {served, served + 1}
      BY <1>7 DEF Open
    <3> QED
      BY <2>1, <2>3, <3>1, <3>2, OpeningIsFinite DEF Opening, OfToken
  <2>4. CASE q \notin Opening
    <3>1. Opening' = Opening /\ served' = served
      BY <1>7, <2>2, <2>4 DEF Open, Opening, OfToken
    <3> QED
      BY <2>1, <3>1
  <2> QED
    BY <2>3, <2>4
<1> QED
  BY <1>1, <1>2, <1>3, <1>4, <1>5, <1>6, <1>7 DEF DownloadsNext

-----------------------------------------------------------------------------
Inv ==
  /\ DownloadsTypeOK /\ Publishing /\ Bounds /\ BlobOfArtifact
  /\ Passed /\ CountWithinCap /\ Counted /\ Unserved

LEMMA InvHolds == DownloadsSpec => []Inv
<1>1. DownloadsInit => Inv
  BY InitTypes DEF DownloadsInit, Inv, Publishing, Bounds, BlobOfArtifact, Passed,
                   CountWithinCap, Counted, Unserved, Busy, OfToken
<1>2. Inv /\ [DownloadsNext]_downloadVars => Inv'
  BY TypesKept, PublishingKept, CapKept, CountedKept DEF Inv
<1> QED
  BY <1>1, <1>2, PTL DEF DownloadsSpec

\* However many requests overlap, whatever the cap: download_artifact never
\* counts past max_uses.
THEOREM CapSafety == DownloadsSpec => []CountWithinCap
BY InvHolds, PTL DEF Inv

\* As long as no count was lost, the files handed out and those about to be are
\* within the count (download_artifact counts before it opens).
THEOREM ServedSafety == DownloadsSpec => []ServedIsCounted
<1>1. Inv => ServedIsCounted
  BY OpeningIsFinite DEF Inv, DownloadsTypeOK, Counted, ServedIsCounted
<1> QED
  BY <1>1, InvHolds, PTL

\* The checksum header of a download is of the bytes it streams (_publish and
\* delete_baked_image, in the order they take their steps in).
THEOREM ChecksumSafety == DownloadsSpec => []ChecksumFits
<1>1. Inv => ChecksumFits
  BY DEF Inv, BlobOfArtifact, ChecksumFits
<1> QED
  BY <1>1, InvHolds, PTL

\* However requests, rebakes and removals overlap, none of their writes gives a revoked
\* or expired token back (download_artifact saves the fields it names); the form of the
\* admin site, which saves the whole row, is not among the steps.
THEOREM RevocationStands == DownloadsSpec => StaysRevoked
<1> DEFINE Stays == token # NoRow /\ token' # NoRow /\ token.of = token'.of
                      => (token.revoked => token'.revoked) /\ (token.expired => token'.expired)
<1>1. Inv /\ [DownloadsNext]_downloadVars => [Stays]_downloadVars
  <2> SUFFICES ASSUME Inv, DownloadsNext, token # NoRow, token' # NoRow
               PROVE  (token.revoked => token'.revoked) /\ (token.expired => token'.expired)
    OBVIOUS
  <2>1. token \in Token
    BY DEF Inv, DownloadsTypeOK
  <2>2. CASE UNCHANGED token
    BY <2>2
  <2>3. CASE Revoke \/ ExpireToken
    BY <2>1, <2>3 DEF Revoke, ExpireToken
  <2>4. ASSUME NEW q \in Readers, SaveCount(q)
        PROVE  (token.revoked => token'.revoked) /\ (token.expired => token'.expired)
    BY <2>1, <2>4 DEF SaveCount
  <2>5. ~IssueToken /\ ~DropArtifact /\ ~RemoveRow
    BY DEF Inv, Publishing, IssueToken, DropArtifact, RemoveRow
  <2> QED
    BY <2>2, <2>3, <2>4, <2>5 DEF DownloadsNext, SaveBlob, CreateArtifact, RemoveBlob, ExpireArtifact,
                                  ReadToken, ReadArtifact, Open
<1> QED
  BY <1>1, InvHolds, PTL DEF DownloadsSpec, StaysRevoked
=============================================================================
