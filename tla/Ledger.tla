------------------------------- MODULE Ledger ------------------------------
(***************************************************************************)
(* The hash-chained ledger (packages/core/src/ledger.ts) as it is exported *)
(* and checked again.  SHA-256 over the canonical form (hash.ts) is taken  *)
(* as injective: a digest is the history it commits to, so GENESIS_HASH is *)
(* the empty history.  An entry is a value.                                *)
(***************************************************************************)
EXTENDS Integers, Sequences, SequencesExt, FiniteSetsExt

CONSTANT None

GenesisHash == << >>

Digest(seq, ts, prevHash, entry) ==
  Append(prevHash, [seq |-> seq, ts |-> ts, entry |-> entry])

Head_(records) == IF records = << >> THEN GenesisHash ELSE Last(records).hash

AppendEntry(records, entry, ts) ==
  Append(records, [seq      |-> Len(records),
                   ts       |-> ts,
                   prevHash |-> Head_(records),
                   hash     |-> Digest(Len(records), ts, Head_(records), entry),
                   entry    |-> entry])

(* A slip the checks must notice: the links are followed, the content is   *)
(* not digested again.                                                     *)
BreaksLinkOnly(records, i) ==
  records[i].prevHash # (IF i = 1 THEN GenesisHash ELSE records[i - 1].hash)

(* Breaks the chain at record i: it does not follow its predecessor, or    *)
(* its digest is not that of its content.                                  *)
Breaks(records, i) ==
  \/ records[i].prevHash # (IF i = 1 THEN GenesisHash ELSE records[i - 1].hash)
  \/ records[i].hash # Digest(records[i].seq, records[i].ts, records[i].prevHash, records[i].entry)

Verify(records) ==
  LET broken == {i \in DOMAIN records : Breaks(records, i)}
  IN  IF broken = {} THEN [valid |-> TRUE, brokenAt |-> None]
      ELSE [valid |-> FALSE, brokenAt |-> records[Min(broken)].seq]

(* The export is read back as it was written, digests included. *)
FromJsonl(lines) == lines

=============================================================================
