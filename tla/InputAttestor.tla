--------------------------- MODULE InputAttestor ---------------------------
(***************************************************************************)
(* contracts/src/InputAttestor.sol: who may sign the readings an agent     *)
(* works from, and which bundle of signed readings is accepted.  A         *)
(* publisher is its address, a number, and a signature is the address      *)
(* recovered from it, NoSigner when it is malformed.                       *)
(***************************************************************************)
EXTENDS Naturals, Sequences, FiniteSets

CONSTANTS Publishers, DefaultMaxAge

NoSigner == 0

ASSUME PublishersAssumption ==
    /\ IsFiniteSet(Publishers) /\ Publishers \subseteq Nat \ {NoSigner}
    /\ DefaultMaxAge \in Nat \ {0}

VARIABLES publishers, publisherCount, quorum, maxAge

attestorVars == <<publishers, publisherCount, quorum, maxAge>>

AttestorInit ==
    /\ publishers = {}
    /\ publisherCount = 0
    /\ quorum = 1
    /\ maxAge = DefaultMaxAge

-----------------------------------------------------------------------------

Listed(publisher, allowed) ==
    /\ publishers' = IF allowed THEN publishers \cup {publisher} ELSE publishers \ {publisher}
    /\ publisherCount' = IF allowed THEN publisherCount + 1 ELSE publisherCount - 1

setPublisher(publisher, allowed) ==
    /\ IF (publisher \in publishers) = allowed
         THEN UNCHANGED <<publishers, publisherCount>>
         ELSE Listed(publisher, allowed)
    /\ UNCHANGED <<quorum, maxAge>>

MaySetQuorum(newQuorum, newMaxAge) ==
    newQuorum # 0 /\ newQuorum <= publisherCount /\ newMaxAge # 0

setQuorum(newQuorum, newMaxAge) ==
    /\ MaySetQuorum(newQuorum, newMaxAge)
    /\ quorum' = newQuorum
    /\ maxAge' = newMaxAge
    /\ UNCHANGED <<publishers, publisherCount>>

-----------------------------------------------------------------------------
(* A feed is a reading, its timestamp and its signatures.                  *)

commit(feeds) == [i \in DOMAIN feeds |-> <<feeds[i].reading, feeds[i].timestamp>>]

Fresh(feed, asOf) ==
    /\ feed.timestamp <= asOf
    /\ asOf - feed.timestamp <= maxAge

\* Mistake: the same signature twice passes for two.
AscendingLoosely(signers) ==
    /\ \A j \in DOMAIN signers : signers[j] # NoSigner
    /\ \A i, j \in DOMAIN signers : i < j => signers[i] <= signers[j]

\* Strictly ascending, so that nobody signs twice.
Ascending(signers) ==
    /\ \A j \in DOMAIN signers : signers[j] # NoSigner
    /\ \A i, j \in DOMAIN signers : i < j => signers[i] < signers[j]

Attested(feed) ==
    /\ Ascending(feed.signers)
    /\ \A j \in DOMAIN feed.signers : feed.signers[j] \in publishers
    /\ Len(feed.signers) >= quorum

verifyInputs(inputCommitment, feeds, asOf) ==
    /\ feeds # <<>>
    /\ \A i \in DOMAIN feeds : Fresh(feeds[i], asOf) /\ Attested(feeds[i])
    /\ commit(feeds) = inputCommitment

-----------------------------------------------------------------------------

AttestorTypeOK ==
    /\ publishers \subseteq Publishers
    /\ publisherCount \in Nat
    /\ quorum \in Nat \ {0}
    /\ maxAge \in Nat \ {0}

\* The counter the quorum is checked against is the number of publishers, in
\* whatever order they are listed, listed again, removed and removed again.
CountExact == publisherCount = Cardinality(publishers)

\* Every reading of an accepted bundle carries the signatures of a quorum of
\* different publishers (InputAttestor.sol:92-100).
AttestedByQuorum(feeds) ==
    \A i \in DOMAIN feeds :
      Cardinality({p \in publishers : \E j \in DOMAIN feeds[i].signers :
                                        feeds[i].signers[j] = p}) >= quorum

=============================================================================
