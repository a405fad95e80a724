---------------------------- MODULE ReceiptChain ----------------------------
(***************************************************************************)
(* The hash-chained logs of hyper-receipts: the audit receipts             *)
(* (receipt.rs), the security events (security.rs) and the earlier receipt *)
(* chain (lib.rs).  A process appends to a log in memory, writes it out as *)
(* JSON, and a later process rehydrates it without verifying it.  Between  *)
(* the two the stored form may be damaged.                                 *)
(*                                                                         *)
(* A hash is the term of what it commits to: two hashes are equal exactly  *)
(* when their inputs are, which is what SHA-384 is used for.  `body' is    *)
(* what an entry says (event, subject, decision, inputs; severity,         *)
(* component, fields) with its `tag', the policy or VM it names; `note' is *)
(* the part the hash leaves out: receipt_id or event_id in the first two,  *)
(* signature in the last.                                                  *)
(***************************************************************************)
EXTENDS Integers, Sequences

CONSTANTS
  Bodies,     \* what the entries of each kind of log say: [says, tag]
  MaxLen,     \* bound: entries in a log
  MaxDamage   \* bound: damages of the stored form

ASSUME ChainAssumption == MaxLen \in Nat /\ MaxDamage \in Nat

VARIABLES
  kind,      \* which of the three logs this is
  genesis,   \* genesis_hash; the earlier chain starts from None
  chain,     \* ReceiptChain.receipts, SecurityLog.events
  stored,    \* the JSON document: [genesis, receipts]
  damages,   \* how often the stored form has been damaged
  head       \* a chain head handed out (SnapshotReceipt.chain_head,
             \* DestroyReceipt.chain_head) with the bodies it stood for

vars == <<kind, genesis, chain, stored, damages, head>>

Kinds == {"receipt", "security", "legacy"}

RECEIPT_SCHEMA == "chain.receipt.v1"
SECURITY_EVENT_SCHEMA == "chain.security_event.v1"
RECEIPT_SCHEMA_VERSION == "1"
Schemas == {RECEIPT_SCHEMA, SECURITY_EVENT_SCHEMA, RECEIPT_SCHEMA_VERSION}

None == "none"
GenesisHash == <<"genesis">>
NoHash == <<>>
EmptyHash == <<"">>

\* Where a log of each kind starts.
Anchor(k) == IF k = "legacy" THEN NoHash ELSE GenesisHash

\* head_hash, last_hash: of entries rs over genesis hash g.
HeadHash(g, rs) == IF rs = <<>> THEN g ELSE rs[Len(rs)].hash

-----------------------------------------------------------------------------
ReceiptHash(schema, body, prev) == <<"receipt", schema, body, prev>>

EventHash(schema, body, prev) == <<"event", schema, body, prev>>

\* Receipt::compute_hash writes nothing for an absent option, as for an empty one.
OrEmpty(x) == IF x = None THEN "" ELSE x
LinkOrEmpty(prev) == IF prev = NoHash THEN EmptyHash ELSE prev
LegacyHash(schema, body, prev) ==
  <<"legacy", schema, [body EXCEPT !.tag = OrEmpty(@)], LinkOrEmpty(prev)>>

Entry(schema, body, prev, hash) ==
  [schema |-> schema, body |-> body, prev |-> prev, hash |-> hash,
   note |-> "intact"]

\* Faulty variant: the hash does not commit to the link.
NewReceiptUnbound(b, prev) ==
  Entry(RECEIPT_SCHEMA, b, prev, ReceiptHash(RECEIPT_SCHEMA, b, GenesisHash))

\* What append pushes, and what Receipt::unsigned makes.
NewReceipt(b, prev) ==
  Entry(RECEIPT_SCHEMA, b, prev, ReceiptHash(RECEIPT_SCHEMA, b, prev))
NewEvent(b, prev) ==
  Entry(SECURITY_EVENT_SCHEMA, b, prev, EventHash(SECURITY_EVENT_SCHEMA, b, prev))
Unsigned(b, prev) ==
  Entry(RECEIPT_SCHEMA_VERSION, b, prev, LegacyHash(RECEIPT_SCHEMA_VERSION, b, prev))

\* Faulty variant of the receipt check: the link is not compared.
ReceiptUnlinked(r, expectedPrev) ==
  /\ r.schema = RECEIPT_SCHEMA
  /\ r.hash = ReceiptHash(r.schema, r.body, r.prev)

\* What ReceiptChain::verify, SecurityLog::verify and the earlier verify ask of one
\* entry.  The earlier one does not look at the schema version.
ReceiptOk(r, expectedPrev) ==
  /\ r.schema = RECEIPT_SCHEMA
  /\ r.prev = expectedPrev
  /\ r.hash = ReceiptHash(r.schema, r.body, r.prev)
EventOk(e, expectedPrev) ==
  /\ e.schema = SECURITY_EVENT_SCHEMA
  /\ e.prev = expectedPrev
  /\ e.hash = EventHash(e.schema, e.body, e.prev)
VerifyHash(r) == r.hash = LegacyHash(r.schema, r.body, r.prev)
LegacyOk(r, expectedPrev) == r.prev = expectedPrev /\ VerifyHash(r)

EntryOk(k, r, expectedPrev) ==
  \/ k = "receipt" /\ ReceiptOk(r, expectedPrev)
  \/ k = "security" /\ EventOk(r, expectedPrev)
  \/ k = "legacy" /\ LegacyOk(r, expectedPrev)

\* The first entry links to where the log starts, the others to the entry before.
ExpectedPrev(g, rs, i) == IF i = 1 THEN g ELSE rs[i - 1].hash

\* verify of a log.
Verifies(k, g, rs) ==
  \A i \in DOMAIN rs : EntryOk(k, rs[i], ExpectedPrev(g, rs, i))

\* What an entry says as its hash tells it: the earlier chain does not tell an
\* absent policy from an empty one.
Told(k, r) ==
  IF k = "legacy" THEN [r.body EXCEPT !.tag = OrEmpty(@)] ELSE r.body
BodiesOf(k, rs) == [i \in DOMAIN rs |-> Told(k, rs[i])]

-----------------------------------------------------------------------------
Init ==
  /\ kind \in Kinds
  /\ genesis = Anchor(kind)
  /\ chain = <<>>
  /\ stored = [genesis |-> Anchor(kind), receipts |-> <<>>]
  /\ damages = 0
  /\ head = [hash |-> Anchor(kind), bodies |-> <<>>]

\* Faulty variant: new receipts link to the chain's anchor.
LinkTo == genesis

\* append links a new entry to the head of the log.
AppendLink == HeadHash(genesis, chain)

Grow(r) ==
  /\ Len(chain) < MaxLen
  /\ chain' = Append(chain, r)
  /\ UNCHANGED <<kind, genesis, stored, damages, head>>

AppendReceipt(b) == kind = "receipt" /\ Grow(NewReceipt(b, AppendLink))

AppendEvent(b) == kind = "security" /\ Grow(NewEvent(b, AppendLink))

\* A caller makes a receipt over some link and signs it or not; push takes it if its
\* hash and its link are right, and otherwise changes nothing.
Push(b, prev) ==
  LET r == Unsigned(b, prev) IN
  /\ kind = "legacy"
  /\ VerifyHash(r) /\ r.prev = HeadHash(NoHash, chain)
  /\ Grow(r)

\* A caller keeps the head of the log as its proof token.
TakeHead ==
  /\ damages = 0
  /\ head' = [hash |-> HeadHash(genesis, chain), bodies |-> BodiesOf(kind, chain)]
  /\ UNCHANGED <<kind, genesis, chain, stored, damages>>

ToJson ==
  /\ damages = 0
  /\ stored' = [genesis |-> genesis, receipts |-> chain]
  /\ UNCHANGED <<kind, genesis, chain, damages, head>>

\* from_json takes the document as it is, its genesis hash included.
FromJson ==
  /\ genesis' = stored.genesis
  /\ chain' = stored.receipts
  /\ UNCHANGED <<kind, stored, damages, head>>

-----------------------------------------------------------------------------
\* Damage to the stored entries: one edited, with its hash as it was or recomputed,
\* one lost, or two exchanged.
Edits(r) ==
  {[r EXCEPT !.body = b] : b \in Bodies[kind]}
    \cup {[r EXCEPT !.schema = s] : s \in Schemas}
    \cup {[r EXCEPT !.prev = p] : p \in {Anchor(kind), EmptyHash}}
    \cup {[r EXCEPT !.note = "edited"]}

Rehashed(r) ==
  [r EXCEPT !.hash = CASE kind = "receipt" -> ReceiptHash(r.schema, r.body, r.prev)
                       [] kind = "security" -> EventHash(r.schema, r.body, r.prev)
                       [] kind = "legacy" -> LegacyHash(r.schema, r.body, r.prev)]

Without(rs, i) == SubSeq(rs, 1, i - 1) \o SubSeq(rs, i + 1, Len(rs))

Damaged(rs) ==
  (UNION {{[rs EXCEPT ![i] = e] : e \in Edits(rs[i])} : i \in DOMAIN rs})
    \cup {[rs EXCEPT ![i] = Rehashed(rs[i])] : i \in DOMAIN rs}
    \cup {Without(rs, i) : i \in DOMAIN rs}
    \cup {[rs EXCEPT ![i] = rs[j], ![j] = rs[i]] : i, j \in DOMAIN rs}

Damage ==
  /\ damages < MaxDamage
  /\ \E rs \in Damaged(stored.receipts) :
       stored' = [stored EXCEPT !.receipts = rs]
  /\ damages' = damages + 1
  /\ UNCHANGED <<kind, genesis, chain, head>>

\* Damage to the stored genesis hash: a hash of the document stands in its place.
DamageGenesis ==
  /\ kind # "legacy"
  /\ damages < MaxDamage
  /\ \E i \in DOMAIN stored.receipts :
       stored' = [stored EXCEPT !.genesis = stored.receipts[i].hash]
  /\ damages' = damages + 1
  /\ UNCHANGED <<kind, genesis, chain, head>>

\* One entry added to a log.
Adding ==
  \E b \in Bodies[kind] :
    \/ AppendReceipt(b)
    \/ AppendEvent(b)
    \/ \E prev \in {HeadHash(NoHash, chain), NoHash, EmptyHash} : Push(b, prev)

Next == Adding \/ TakeHead \/ ToJson \/ FromJson \/ Damage \/ DamageGenesis

Spec == Init /\ [][Next]_vars

-----------------------------------------------------------------------------
\* A log verifies as long as nothing damaged its stored form, through any number of
\* appends, writes and rehydrations.
UndamagedVerifies == damages = 0 => Verifies(kind, genesis, chain)

\* A log that starts where its kind starts, verifies and goes through a head handed
\* out earlier holds exactly the entries that head stood for: whatever happened to
\* the stored form, what the hash leaves out aside, verify and one retained head
\* detect it.  verify does not look at where the log starts: from_json takes the
\* genesis hash from the document.
HeadPinsHistory ==
  genesis = Anchor(kind) /\ Verifies(kind, genesis, chain) =>
    \A i \in DOMAIN chain :
      chain[i].hash = head.hash => BodiesOf(kind, SubSeq(chain, 1, i)) = head.bodies

\* Adding an entry neither repairs a log that fails verification nor breaks one that
\* passes it.
AppendKeepsVerdict ==
  [][Adding => (Verifies(kind', genesis', chain') <=> Verifies(kind, genesis, chain))]_vars

=============================================================================
