------------------------------ MODULE Downloads ------------------------------
(***************************************************************************)
(* Download tokens: download_artifact, the view behind the link, with the  *)
(* publishing of an artifact (_publish issues a token with it), a rebake   *)
(* that publishes again, the removal of the baked image and a revocation.  *)
(*                                                                         *)
(* A request reads the token, reads the artifact, writes the use count it  *)
(* read plus one, and opens the object; requests run in several workers.   *)
(* A baking is a number: the artifact row says whose checksum it carries,  *)
(* the object whose bytes it holds.  The object store is one that          *)
(* overwrites (S3), the key of a build's object does not change.  Of the   *)
(* tokens of an artifact the model follows one: the one _publish issues, of *)
(* no cap, or one an operator adds with a cap.                             *)
(***************************************************************************)
EXTENDS Naturals, FiniteSets

CONSTANTS Readers,   \* requests for the link of the token
          Caps,      \* max_uses of the tokens issued, 0 for no cap
          Bakings,   \* bound: how often the build is baked
          MaxCount,  \* bound: a count that is still read
          NoRow

VARIABLES baked,     \* bakings so far
          artifact,  \* the Artifact row, or NoRow
          blob,      \* the baking the object is of, or NoRow
          token,     \* the DownloadToken row, or NoRow
          publisher, \* what the publishing or the removal does next
          reader,    \* the requests
          served,    \* history: files handed out for the token
          raced      \* history: a count was written over one it was not read from

downloadVars == <<baked, artifact, blob, token, publisher, reader, served, raced>>

Artifact == [of: Nat, expired: BOOLEAN]
Token == [of: Nat, uses: Nat, max: Nat, revoked: BOOLEAN, expired: BOOLEAN]

ASSUME DownloadsAssumption ==
  /\ IsFiniteSet(Readers)
  /\ Caps \subseteq Nat /\ Bakings \in Nat /\ MaxCount \in Nat
  /\ NoRow \notin Nat \cup Artifact \cup Token

NoReader == [pc |-> "idle", uses |-> 0, of |-> 0]

Reader == [pc: {"idle", "token", "count", "open"}, uses: Nat, of: Nat]

DownloadsTypeOK ==
  /\ baked \in Nat
  /\ artifact \in Artifact \cup {NoRow} /\ blob \in Nat \cup {NoRow}
  /\ token \in Token \cup {NoRow}
  /\ publisher \in {"idle", "save", "create", "issue", "remove", "gone"}
  /\ reader \in [Readers -> Reader]
  /\ served \in Nat /\ raced \in BOOLEAN

DownloadsInit ==
  /\ baked = 0 /\ artifact = NoRow /\ blob = NoRow /\ token = NoRow
  /\ publisher = "idle" /\ reader = [q \in Readers |-> NoReader]
  /\ served = 0 /\ raced = FALSE

-----------------------------------------------------------------------------
(* _publish: the previous artifact goes, with its tokens; the object is      *)
(* stored; the artifact and a token are created.                             *)

\* Mutant: the object is stored before the previous artifact goes.
StoreFirst ==
  /\ publisher = "idle" /\ baked < Bakings
  /\ publisher' = "save" /\ baked' = baked + 1 /\ blob' = baked + 1
  /\ UNCHANGED <<artifact, token, reader, served, raced>>

DropArtifact ==
  /\ publisher = "idle" /\ baked < Bakings
  /\ publisher' = "save" /\ baked' = baked + 1
  /\ artifact' = NoRow /\ token' = NoRow /\ served' = 0 /\ raced' = FALSE
  /\ UNCHANGED <<blob, reader>>

SaveBlob ==
  /\ publisher = "save" /\ publisher' = "create" /\ blob' = baked
  /\ UNCHANGED <<baked, artifact, token, reader, served, raced>>

CreateArtifact ==
  /\ publisher = "create" /\ publisher' = "issue"
  /\ artifact' = [of |-> baked, expired |-> FALSE]
  /\ UNCHANGED <<baked, blob, token, reader, served, raced>>

IssueToken ==
  /\ publisher = "issue" /\ publisher' = "idle"
  /\ \E m \in Caps :
       token' = [of |-> baked, uses |-> 0, max |-> m, revoked |-> FALSE, expired |-> FALSE]
  /\ UNCHANGED <<baked, artifact, blob, reader, served, raced>>

\* delete_baked_image: the object first, then the row and what cascades from it.
RemoveBlob ==
  /\ publisher = "idle" /\ artifact # NoRow
  /\ publisher' = "remove" /\ blob' = NoRow
  /\ UNCHANGED <<baked, artifact, token, reader, served, raced>>

RemoveRow ==
  /\ publisher = "remove" /\ publisher' = "gone"
  /\ artifact' = NoRow /\ token' = NoRow /\ served' = 0 /\ raced' = FALSE
  /\ UNCHANGED <<baked, blob, reader>>

-----------------------------------------------------------------------------
\* revoke() saves revoked_at; the time of the token runs out, or the artifact's.
Revoke ==
  /\ token # NoRow /\ ~token.revoked
  /\ token' = [token EXCEPT !.revoked = TRUE]
  /\ UNCHANGED <<baked, artifact, blob, publisher, reader, served, raced>>

ExpireToken ==
  /\ token # NoRow /\ ~token.expired
  /\ token' = [token EXCEPT !.expired = TRUE]
  /\ UNCHANGED <<baked, artifact, blob, publisher, reader, served, raced>>

ExpireArtifact ==
  /\ artifact # NoRow /\ ~artifact.expired
  /\ artifact' = [artifact EXCEPT !.expired = TRUE]
  /\ UNCHANGED <<baked, blob, token, publisher, reader, served, raced>>

\* Mutant: one use more than the cap.
IsValidUpTo(t) == ~t.revoked /\ ~t.expired /\ (t.max = 0 \/ t.uses <= t.max)

IsValid(t) == ~t.revoked /\ ~t.expired /\ (t.max = 0 \/ t.uses < t.max)

\* The token is read, with what is_valid looks at; otherwise a 404.
ReadToken(q) ==
  /\ reader[q].pc = "idle" /\ token # NoRow /\ IsValid(token)
  /\ token.uses < MaxCount
  /\ reader' = [reader EXCEPT ![q] = [pc |-> "token", uses |-> token.uses, of |-> token.of]]
  /\ UNCHANGED <<baked, artifact, blob, token, publisher, served, raced>>

\* dl.artifact: an error when it went with its baking, a 404 when its time is up.
ReadArtifact(q) ==
  /\ reader[q].pc = "token"
  /\ reader' = [reader EXCEPT ![q] =
       IF artifact = [of |-> reader[q].of, expired |-> FALSE]
       THEN [reader[q] EXCEPT !.pc = "count"] ELSE NoReader]
  /\ UNCHANGED <<baked, artifact, blob, token, publisher, served, raced>>

\* Mutant: the whole row is saved as it was read.
SaveWhole(q) ==
  /\ reader[q].pc = "count"
  /\ IF token = NoRow \/ token.of # reader[q].of
     THEN /\ reader' = [reader EXCEPT ![q] = NoReader]
          /\ UNCHANGED <<token, raced>>
     ELSE /\ token' = [token EXCEPT !.uses = reader[q].uses + 1, !.revoked = FALSE]
          /\ raced' = (raced \/ token.uses # reader[q].uses)
          /\ reader' = [reader EXCEPT ![q].pc = "open"]
  /\ UNCHANGED <<baked, artifact, blob, publisher, served>>

\* Mutant: the count is written after the file was opened, that is not here.
CountLater(q) ==
  /\ reader[q].pc = "count"
  /\ reader' = [reader EXCEPT ![q].pc = "open"]
  /\ UNCHANGED <<baked, artifact, blob, token, publisher, served, raced>>

\* save(update_fields=[use_count, last_used_at]): an error when the row is gone.
SaveCount(q) ==
  /\ reader[q].pc = "count"
  /\ IF token = NoRow \/ token.of # reader[q].of
     THEN /\ reader' = [reader EXCEPT ![q] = NoReader]
          /\ UNCHANGED <<token, raced>>
     ELSE /\ token' = [token EXCEPT !.uses = reader[q].uses + 1]
          /\ raced' = (raced \/ token.uses # reader[q].uses)
          /\ reader' = [reader EXCEPT ![q].pc = "open"]
  /\ UNCHANGED <<baked, artifact, blob, publisher, served>>

\* The object is opened and streamed, with the checksum of the row that was read;
\* without the object that is an error, and the use stays counted.
Open(q) ==
  /\ reader[q].pc = "open"
  /\ reader' = [reader EXCEPT ![q] = NoReader]
  /\ served' = IF blob # NoRow /\ token # NoRow /\ token.of = reader[q].of THEN served + 1 ELSE served
  /\ UNCHANGED <<baked, artifact, blob, token, publisher, raced>>

DownloadsNext ==
  \/ DropArtifact \/ SaveBlob \/ CreateArtifact \/ IssueToken
  \/ RemoveBlob \/ RemoveRow
  \/ Revoke \/ ExpireToken \/ ExpireArtifact
  \/ \E q \in Readers : ReadToken(q) \/ ReadArtifact(q) \/ SaveCount(q) \/ Open(q)

DownloadsSpec == DownloadsInit /\ [][DownloadsNext]_downloadVars

-----------------------------------------------------------------------------
(* However requests overlap, a token's count stays within its cap: what is  *)
(* written is one more than a count that passed is_valid (builds/models.py: *)
(* 305).                                                                    *)
CountWithinCap == token # NoRow => token.max = 0 \/ token.uses <= token.max

(* The cap is a cap on files: as long as no count was written over one it   *)
(* was not read from, no more files were handed out than were counted.  Two *)
(* requests that overlap get two files for one use, and so pass the cap     *)
(* ("404 for ... over-used tokens", docs/api.md:76).                        *)
ServedIsCounted == token # NoRow /\ ~raced => served <= token.uses

(* A request that is being served does not bring a revoked or expired token *)
(* back: its save names the fields it writes (builds/views.py:55).  The     *)
(* admin form (builds/admin.py:56), which saves the whole row and can, is   *)
(* left out.                                                                *)
StaysRevoked ==
  [][token # NoRow /\ token' # NoRow /\ token.of = token'.of
       => /\ token.revoked => token'.revoked
          /\ token.expired => token'.expired]_downloadVars

(* The bytes are those the checksum header is of, except where the artifact *)
(* the request read has been replaced or removed since.                     *)
ChecksumFits ==
  \A q \in Readers :
    reader[q].pc = "open" /\ artifact # NoRow /\ artifact.of = reader[q].of
      => blob \in {artifact.of, NoRow}
=============================================================================
