-------------------------- MODULE ReceiptChainProofs --------------------------
(***************************************************************************)
(* For every set of bodies and every bound: an undamaged log of any of the *)
(* three kinds verifies, and adding an entry leaves the verdict of verify  *)
(* as it was, whatever damage the log has.  Both rest on one lemma: an     *)
(* entry made for the head of a log leaves what verify asks of the entries *)
(* before it alone.  And a log that verifies and meets a head handed out   *)
(* earlier tells what that head stood for: a hash commits to the entry and *)
(* its link, so logs that share a hash share their past up to it, by a     *)
(* least counterexample.                                                   *)
(***************************************************************************)
EXTENDS ReceiptChain, WellFoundedInduction, TLAPS

IsLog(rs) == \E S : rs \in Seq(S)

\* The earlier chain starts from no hash at all, whatever happened to the document;
\* the memory and the document of an undamaged log verify, from where its kind starts.
ChainInv ==
  /\ kind \in Kinds
  /\ IsLog(chain) /\ IsLog(stored.receipts)
  /\ stored = [genesis |-> stored.genesis, receipts |-> stored.receipts]
  /\ kind = "legacy" => genesis = NoHash /\ stored.genesis = NoHash
  /\ damages \in Nat
  /\ damages = 0 => /\ Verifies(kind, genesis, chain)
                    /\ Verifies(kind, stored.genesis, stored.receipts)

LEMMA AppendVerdict ==
  ASSUME NEW k, NEW g, NEW S, NEW rs \in Seq(S), NEW r,
         EntryOk(k, r, HeadHash(g, rs))
  PROVE  Verifies(k, g, Append(rs, r)) <=> Verifies(k, g, rs)
<1> DEFINE new == Append(rs, r)
<1>1. /\ Len(rs) \in Nat /\ DOMAIN rs = 1 .. Len(rs)
      /\ DOMAIN new = 1 .. Len(rs) + 1
      /\ \A i \in 1 .. Len(rs) : new[i] = rs[i]
      /\ new[Len(rs) + 1] = r
  OBVIOUS
<1>2. ASSUME NEW i \in 1 .. Len(rs)
      PROVE  new[i] = rs[i] /\ ExpectedPrev(g, new, i) = ExpectedPrev(g, rs, i)
  <2>1. CASE i = 1
    BY <1>1, <2>1 DEF ExpectedPrev
  <2>2. CASE i # 1
    <3>1. i - 1 \in 1 .. Len(rs)
      BY <1>1, <2>2
    <3>. QED  BY <1>1, <2>2, <3>1 DEF ExpectedPrev
  <2>. QED  BY <2>1, <2>2
<1>3. ExpectedPrev(g, new, Len(rs) + 1) = HeadHash(g, rs)
  <2>1. CASE rs = <<>>
    BY <1>1, <2>1 DEF ExpectedPrev, HeadHash
  <2>2. CASE rs # <<>>
    <3>1. Len(rs) # 0
      BY <2>2
    <3>2. Len(rs) + 1 # 1 /\ Len(rs) + 1 - 1 = Len(rs) /\ Len(rs) \in 1 .. Len(rs)
      BY <1>1, <3>1
    <3>. QED  BY <1>1, <2>2, <3>2 DEF ExpectedPrev, HeadHash
  <2>. QED  BY <2>1, <2>2
<1>4. EntryOk(k, new[Len(rs) + 1], ExpectedPrev(g, new, Len(rs) + 1))
  BY <1>1, <1>3
<1>5. Verifies(k, g, new) <=>
        \A i \in 1 .. Len(rs) + 1 : EntryOk(k, new[i], ExpectedPrev(g, new, i))
  BY <1>1 DEF Verifies
<1>6. Verifies(k, g, rs) <=>
        \A i \in 1 .. Len(rs) : EntryOk(k, rs[i], ExpectedPrev(g, rs, i))
  BY <1>1 DEF Verifies
<1>7. \A i \in 1 .. Len(rs) + 1 : i \in 1 .. Len(rs) \/ i = Len(rs) + 1
  BY <1>1
<1>8. \A i \in 1 .. Len(rs) : i \in 1 .. Len(rs) + 1
  BY <1>1
<1> HIDE DEF new
<1>9. Verifies(k, g, new) <=> Verifies(k, g, rs)
  BY <1>2, <1>4, <1>5, <1>6, <1>7, <1>8
<1>. QED  BY <1>9 DEF new

\* What an Adding step does: one entry that is right for the head of the log.
LEMMA AddingAppends ==
  ASSUME ChainInv, Adding
  PROVE  \E r : /\ EntryOk(kind, r, HeadHash(genesis, chain))
                /\ chain' = Append(chain, r)
                /\ UNCHANGED <<kind, genesis, stored, damages>>
<1>1. PICK b \in Bodies[kind] :
        \/ AppendReceipt(b) \/ AppendEvent(b)
        \/ \E prev \in {HeadHash(NoHash, chain), NoHash, EmptyHash} : Push(b, prev)
  BY DEF Adding
<1>2. CASE AppendReceipt(b)
  <2>1. EntryOk(kind, NewReceipt(b, AppendLink), HeadHash(genesis, chain))
    BY <1>2 DEF AppendReceipt, EntryOk, ReceiptOk, NewReceipt, Entry, AppendLink
  <2>. QED  BY <1>2, <2>1 DEF AppendReceipt, Grow
<1>3. CASE AppendEvent(b)
  <2>1. EntryOk(kind, NewEvent(b, AppendLink), HeadHash(genesis, chain))
    BY <1>3 DEF AppendEvent, EntryOk, EventOk, NewEvent, Entry, AppendLink
  <2>. QED  BY <1>3, <2>1 DEF AppendEvent, Grow
<1>4. CASE \E prev \in {HeadHash(NoHash, chain), NoHash, EmptyHash} : Push(b, prev)
  <2>1. PICK prev : Push(b, prev)
    BY <1>4
  <2>2. kind = "legacy" /\ genesis = NoHash
    BY <2>1 DEF Push, ChainInv
  <2>3. EntryOk(kind, Unsigned(b, prev), HeadHash(genesis, chain))
    BY <2>1, <2>2 DEF Push, EntryOk, LegacyOk
  <2>. QED  BY <2>1, <2>3 DEF Push, Grow
<1>. QED  BY <1>1, <1>2, <1>3, <1>4

LEMMA GrownIsLog ==
  ASSUME NEW rs, IsLog(rs), NEW r
  PROVE  IsLog(Append(rs, r))
<1>1. PICK S : rs \in Seq(S)
  BY DEF IsLog
<1>2. rs \in Seq(S \cup {r})
  BY <1>1
<1>3. Append(rs, r) \in Seq(S \cup {r})
  BY <1>2
<1>. QED  BY <1>3 DEF IsLog

\* Damage leaves a list of entries a list of entries.
LEMMA DamagedIsLog ==
  ASSUME NEW rs, IsLog(rs), NEW ds \in Damaged(rs)
  PROVE  IsLog(ds)
<1>1. PICK S : rs \in Seq(S)
  BY DEF IsLog
<1>2. Len(rs) \in Nat /\ DOMAIN rs = 1 .. Len(rs)
  BY <1>1
<1>3. ASSUME NEW i \in DOMAIN rs, NEW e
      PROVE  IsLog([rs EXCEPT ![i] = e])
  <2>1. rs \in Seq(S \cup {e})
    BY <1>1
  <2>2. [rs EXCEPT ![i] = e] \in Seq(S \cup {e})
    BY <2>1
  <2>. QED  BY <2>2 DEF IsLog
<1>4. ASSUME NEW i \in DOMAIN rs
      PROVE  IsLog(Without(rs, i))
  <2>1. i - 1 \in 0 .. Len(rs) /\ i + 1 \in 1 .. Len(rs) + 1
    BY <1>2
  <2>2. SubSeq(rs, 1, i - 1) \in Seq(S)
    BY <1>1, <1>2, <2>1
  <2>3. SubSeq(rs, i + 1, Len(rs)) \in Seq(S)
    BY <1>1, <1>2, <2>1
  <2>4. Without(rs, i) \in Seq(S)
    BY <2>2, <2>3 DEF Without
  <2>. QED  BY <2>4 DEF IsLog
<1>5. ASSUME NEW i \in DOMAIN rs, NEW j \in DOMAIN rs
      PROVE  IsLog([rs EXCEPT ![i] = rs[j], ![j] = rs[i]])
  <2>1. [rs EXCEPT ![i] = rs[j], ![j] = rs[i]] \in Seq(S)
    BY <1>1
  <2>. QED  BY <2>1 DEF IsLog
<1>. QED  BY <1>3, <1>4, <1>5 DEF Damaged

LEMMA InitChain == Init => ChainInv
<1> SUFFICES ASSUME Init PROVE ChainInv
  OBVIOUS
<1>1. IsLog(<<>>)
  <2>1. <<>> \in Seq({})
    OBVIOUS
  <2>. QED  BY <2>1 DEF IsLog
<1>2. \A k, g : Verifies(k, g, <<>>)
  BY DEF Verifies
<1>. QED  BY <1>1, <1>2 DEF Init, ChainInv, Anchor

LEMMA NextChain == ChainInv /\ [Next]_vars => ChainInv'
<1> SUFFICES ASSUME ChainInv, [Next]_vars PROVE ChainInv'
  OBVIOUS
<1>1. CASE Adding
  <2>1. PICK r : /\ EntryOk(kind, r, HeadHash(genesis, chain))
                 /\ chain' = Append(chain, r)
                 /\ UNCHANGED <<kind, genesis, stored, damages>>
    BY <1>1, AddingAppends
  <2>2. IsLog(chain')
    BY <2>1, GrownIsLog DEF ChainInv
  <2>3. Verifies(kind, genesis, chain') <=> Verifies(kind, genesis, chain)
    <3>1. PICK S : chain \in Seq(S)
      BY DEF ChainInv, IsLog
    <3>. QED  BY <2>1, <3>1, AppendVerdict
  <2>. QED  BY <2>1, <2>2, <2>3 DEF ChainInv
<1>2. CASE TakeHead
  BY <1>2 DEF TakeHead, ChainInv
<1>3. CASE ToJson
  BY <1>3 DEF ToJson, ChainInv
<1>4. CASE FromJson
  BY <1>4 DEF FromJson, ChainInv
<1>5. CASE Damage
  <2>1. PICK rs \in Damaged(stored.receipts) :
          stored' = [stored EXCEPT !.receipts = rs]
    BY <1>5 DEF Damage
  <2>2. IsLog(rs)
    BY <2>1, DamagedIsLog DEF ChainInv
  <2>3. stored' = [genesis |-> stored.genesis, receipts |-> rs]
    BY <2>1 DEF ChainInv
  <2>4. damages' \in Nat /\ damages' # 0 /\ UNCHANGED <<kind, genesis, chain>>
    BY <1>5 DEF Damage, ChainInv
  <2>. QED  BY <2>2, <2>3, <2>4 DEF ChainInv
<1>6. CASE DamageGenesis
  <2>1. PICK i \in DOMAIN stored.receipts :
          stored' = [stored EXCEPT !.genesis = stored.receipts[i].hash]
    BY <1>6 DEF DamageGenesis
  <2>2. stored' = [genesis |-> stored.receipts[i].hash, receipts |-> stored.receipts]
    BY <2>1 DEF ChainInv
  <2>3. /\ damages' \in Nat /\ damages' # 0 /\ kind # "legacy"
        /\ UNCHANGED <<kind, genesis, chain>>
    BY <1>6 DEF DamageGenesis, ChainInv
  <2>. QED  BY <2>2, <2>3 DEF ChainInv
<1>7. CASE UNCHANGED vars
  BY <1>7 DEF vars, ChainInv
<1>. QED  BY <1>1, <1>2, <1>3, <1>4, <1>5, <1>6, <1>7 DEF Next

LEMMA ChainInductive == Spec => []ChainInv
<1>. QED  BY InitChain, NextChain, PTL DEF Spec

\* An undamaged log verifies, through any number of appends, writes and rehydrations
\* (UndamagedVerifies: append, push, to_json, from_json and verify of the three logs).
THEOREM UndamagedLogsVerify == Spec => []UndamagedVerifies
<1>1. ChainInv => UndamagedVerifies
  BY DEF ChainInv, UndamagedVerifies
<1>. QED  BY <1>1, ChainInductive, PTL

\* Adding an entry leaves the verdict of verify as it was, for every damage
\* (AppendKeepsVerdict: append and push on a rehydrated log).
THEOREM AppendingKeepsVerdict == Spec => AppendKeepsVerdict
<1>1. ASSUME ChainInv, Adding
      PROVE  Verifies(kind', genesis', chain') <=> Verifies(kind, genesis, chain)
  <2>1. PICK r : /\ EntryOk(kind, r, HeadHash(genesis, chain))
                 /\ chain' = Append(chain, r)
                 /\ UNCHANGED <<kind, genesis, stored, damages>>
    BY <1>1, AddingAppends
  <2>2. PICK S : chain \in Seq(S)
    BY <1>1 DEF ChainInv, IsLog
  <2>. QED  BY <2>1, <2>2, AppendVerdict
<1>2. ChainInv /\ [Next]_vars =>
        [Adding => (Verifies(kind', genesis', chain') <=>
                    Verifies(kind, genesis, chain))]_vars
  BY <1>1
<1>. QED  BY <1>2, ChainInductive, PTL DEF Spec, AppendKeepsVerdict

-----------------------------------------------------------------------------
\* Every set of numbers that has a member has a least one.
LEMMA LeastMember ==
  ASSUME NEW T, T \subseteq Nat, T # {}
  PROVE  \E x \in T : \A y \in T : ~(y < x)
<1>1. \E x \in T : \A y \in T : <<y, x>> \notin OpToRel(<, Nat)
  BY NatLessThanWellFounded, WFMin
<1>2. PICK x \in T : \A y \in T : <<y, x>> \notin OpToRel(<, Nat)
  BY <1>1
<1>3. ASSUME NEW y \in T PROVE ~(y < x)
  BY <1>2 DEF OpToRel
<1>. QED  BY <1>3

\* What the hash of an entry that verify accepts commits to.
HashOf(k, r, prev) ==
  \/ k = "receipt" /\ r.hash = <<"receipt", r.schema, Told(k, r), prev>>
  \/ k = "security" /\ r.hash = <<"event", r.schema, Told(k, r), prev>>
  \/ k = "legacy" /\ r.hash = <<"legacy", r.schema, Told(k, r), LinkOrEmpty(prev)>>

LEMMA OkCommits ==
  ASSUME NEW k, NEW r, NEW prev, EntryOk(k, r, prev)
  PROVE  k \in Kinds /\ HashOf(k, r, prev)
<1>1. CASE k = "receipt" /\ ReceiptOk(r, prev)
  BY <1>1 DEF ReceiptOk, ReceiptHash, HashOf, Told, Kinds
<1>2. CASE k = "security" /\ EventOk(r, prev)
  BY <1>2 DEF EventOk, EventHash, HashOf, Told, Kinds
<1>3. CASE k = "legacy" /\ LegacyOk(r, prev)
  BY <1>3 DEF LegacyOk, VerifyHash, LegacyHash, HashOf, Told, Kinds
<1>. QED  BY <1>1, <1>2, <1>3 DEF EntryOk

\* A hash of an entry is none of the values a log can start from.
LEMMA HashIsNoAnchor ==
  ASSUME NEW k, NEW r, NEW prev, HashOf(k, r, prev)
  PROVE  r.hash # Anchor(k) /\ r.hash # NoHash /\ r.hash # EmptyHash
<1>1. \A a, b, c, d : <<a, b, c, d>> # <<>>
  OBVIOUS
<1>2. \A a, b, c, d, e : <<a, b, c, d>> # <<e>>
  OBVIOUS
<1>. QED  BY <1>1, <1>2 DEF HashOf, Anchor, NoHash, EmptyHash, GenesisHash

LEMMA HashCommits ==
  ASSUME NEW k, NEW r, NEW p, NEW s, NEW q,
         HashOf(k, r, p), HashOf(k, s, q), r.hash = s.hash,
         k = "legacy" => p # EmptyHash /\ q # EmptyHash
  PROVE  Told(k, r) = Told(k, s) /\ p = q
<1>1. \A a, b, c, d, e, f, g, h :
        <<a, b, c, d>> = <<e, f, g, h>> => c = g /\ d = h
  OBVIOUS
<1>2. CASE k = "receipt"
  BY <1>1, <1>2 DEF HashOf
<1>3. CASE k = "security"
  BY <1>1, <1>3 DEF HashOf
<1>4. CASE k = "legacy"
  <2>1. Told(k, r) = Told(k, s) /\ LinkOrEmpty(p) = LinkOrEmpty(q)
    BY <1>1, <1>4 DEF HashOf
  <2>. QED  BY <1>4, <2>1 DEF LinkOrEmpty
<1>. QED  BY <1>2, <1>3, <1>4 DEF HashOf

\* Where the entries of a log that verifies link to: the first to the anchor, the
\* others to the hash of an entry, which is no anchor.
LEMMA Links ==
  ASSUME NEW k, NEW rs, IsLog(rs), Verifies(k, Anchor(k), rs),
         NEW i \in DOMAIN rs
  PROVE  /\ HashOf(k, rs[i], ExpectedPrev(Anchor(k), rs, i))
         /\ ExpectedPrev(Anchor(k), rs, i) = Anchor(k) => i = 1
         /\ i # 1 => i - 1 \in DOMAIN rs
         /\ k = "legacy" => ExpectedPrev(Anchor(k), rs, i) # EmptyHash
<1>1. DOMAIN rs = 1 .. Len(rs) /\ Len(rs) \in Nat
  BY DEF IsLog
<1>2. \A j \in DOMAIN rs : HashOf(k, rs[j], ExpectedPrev(Anchor(k), rs, j))
  BY OkCommits DEF Verifies
<1>3. i # 1 => i - 1 \in DOMAIN rs
  BY <1>1
<1>4. \A j \in DOMAIN rs : rs[j].hash # Anchor(k) /\ rs[j].hash # EmptyHash
  BY <1>2, HashIsNoAnchor
<1>5. CASE i = 1
  <2>1. ExpectedPrev(Anchor(k), rs, i) = Anchor(k)
    BY <1>5 DEF ExpectedPrev
  <2>2. NoHash # EmptyHash
    BY DEF NoHash, EmptyHash
  <2>. QED  BY <1>2, <1>5, <2>1, <2>2 DEF Anchor
<1>6. CASE i # 1
  <2>1. ExpectedPrev(Anchor(k), rs, i) = rs[i - 1].hash
    BY <1>6 DEF ExpectedPrev
  <2>. QED  BY <1>2, <1>3, <1>4, <1>6, <2>1
<1>. QED  BY <1>5, <1>6

\* Two logs that verify from the anchor and share a hash tell the same up to it.  The
\* least place at which they did not would have a predecessor at which they do not.
LEMMA SharedHashSharedPast ==
  ASSUME NEW k, NEW rs, NEW ss, IsLog(rs), IsLog(ss),
         Verifies(k, Anchor(k), rs), Verifies(k, Anchor(k), ss)
  PROVE  \A i \in DOMAIN rs : \A j \in DOMAIN ss :
           rs[i].hash = ss[j].hash =>
             i = j /\ \A m \in 1 .. i : Told(k, rs[m]) = Told(k, ss[m])
<1> DEFINE Agree(i, j) ==
             i = j /\ \A m \in 1 .. i : Told(k, rs[m]) = Told(k, ss[m])
           Parting == {i \in DOMAIN rs : \E j \in DOMAIN ss :
                         rs[i].hash = ss[j].hash /\ ~Agree(i, j)}
<1> SUFFICES Parting = {}
  OBVIOUS
<1> SUFFICES ASSUME Parting # {} PROVE FALSE
  OBVIOUS
<1>1. /\ DOMAIN rs = 1 .. Len(rs) /\ Len(rs) \in Nat
      /\ DOMAIN ss = 1 .. Len(ss) /\ Len(ss) \in Nat
  BY DEF IsLog
<1>2. Parting \subseteq Nat
  BY <1>1
<1>3. PICK i \in Parting : \A y \in Parting : ~(y < i)
  <2> HIDE DEF Parting
  <2>. QED  BY <1>2, LeastMember
<1>4. PICK j \in DOMAIN ss : rs[i].hash = ss[j].hash /\ ~Agree(i, j)
  OBVIOUS
<1>5. i \in DOMAIN rs /\ i \in Nat /\ j \in Nat
  BY <1>1
<1>6. /\ Told(k, rs[i]) = Told(k, ss[j])
      /\ ExpectedPrev(Anchor(k), rs, i) = ExpectedPrev(Anchor(k), ss, j)
  BY <1>4, <1>5, Links, HashCommits
<1>7. CASE i = 1
  <2>1. ExpectedPrev(Anchor(k), ss, j) = Anchor(k)
    BY <1>6, <1>7 DEF ExpectedPrev
  <2>2. j = 1
    BY <2>1, Links
  <2>. QED  BY <1>4, <1>6, <1>7, <2>2
<1>8. CASE i # 1
  <2>1. i - 1 \in DOMAIN rs
    BY <1>5, <1>8, Links
  <2>2. j # 1
    <3>1. ASSUME j = 1 PROVE FALSE
      <4>1. ExpectedPrev(Anchor(k), rs, i) = Anchor(k)
        BY <1>6, <3>1 DEF ExpectedPrev
      <4>. QED  BY <1>5, <1>8, <4>1, Links
    <3>. QED  BY <3>1
  <2>3. j - 1 \in DOMAIN ss
    BY <2>2, Links
  <2>4. rs[i - 1].hash = ss[j - 1].hash
    BY <1>6, <1>8, <2>2 DEF ExpectedPrev
  <2>5. i - 1 \notin Parting
    <3> HIDE DEF Parting
    <3>. QED  BY <1>3, <1>5
  <2>6. Agree(i - 1, j - 1)
    BY <2>1, <2>3, <2>4, <2>5
  <2>7. i = j
    BY <1>5, <2>6
  <2>8. \A m \in 1 .. i : m \in 1 .. i - 1 \/ m = i
    BY <1>5
  <2>. QED  BY <1>4, <1>6, <2>6, <2>7, <2>8
<1>. QED  BY <1>7, <1>8

\* As long as nothing is damaged the log starts where its kind starts, and so did the
\* log a head was taken from, which verified.
HeadInv ==
  /\ damages = 0 => genesis = Anchor(kind) /\ stored.genesis = Anchor(kind)
  /\ \E rs : /\ IsLog(rs) /\ Verifies(kind, Anchor(kind), rs)
             /\ head.hash = HeadHash(Anchor(kind), rs)
             /\ head.bodies = BodiesOf(kind, rs)

LEMMA InitHead == Init => HeadInv
<1> SUFFICES ASSUME Init PROVE HeadInv
  OBVIOUS
<1>1. IsLog(<<>>)
  <2>1. <<>> \in Seq({})
    OBVIOUS
  <2>. QED  BY <2>1 DEF IsLog
<1>2. Verifies(kind, Anchor(kind), <<>>)
  BY DEF Verifies
<1>3. BodiesOf(kind, <<>>) = <<>>
  BY DEF BodiesOf
<1>4. HeadHash(Anchor(kind), <<>>) = Anchor(kind)
  BY DEF HeadHash
<1>. QED  BY <1>1, <1>2, <1>3, <1>4 DEF Init, HeadInv

LEMMA NextHead == ChainInv /\ HeadInv /\ [Next]_vars => HeadInv'
<1> SUFFICES ASSUME ChainInv, HeadInv, [Next]_vars PROVE HeadInv'
  OBVIOUS
<1>1. CASE Adding
  <2>1. UNCHANGED <<kind, genesis, stored, damages, head>>
    BY <1>1 DEF Adding, AppendReceipt, AppendEvent, Push, Grow
  <2>. QED  BY <2>1 DEF HeadInv
<1>2. CASE TakeHead
  <2>1. /\ damages = 0
        /\ head' = [hash |-> HeadHash(genesis, chain), bodies |-> BodiesOf(kind, chain)]
        /\ UNCHANGED <<kind, genesis, chain, stored, damages>>
    BY <1>2 DEF TakeHead
  <2>2. /\ genesis = Anchor(kind) /\ stored.genesis = Anchor(kind)
        /\ IsLog(chain) /\ Verifies(kind, Anchor(kind), chain)
    BY <2>1 DEF HeadInv, ChainInv
  <2>3. /\ head'.hash = HeadHash(Anchor(kind), chain)
        /\ head'.bodies = BodiesOf(kind, chain)
    BY <2>1, <2>2
  <2>. QED  BY <2>1, <2>2, <2>3 DEF HeadInv
<1>3. CASE ToJson
  BY <1>3 DEF ToJson, HeadInv
<1>4. CASE FromJson
  BY <1>4 DEF FromJson, HeadInv
<1>5. CASE Damage
  <2>1. damages' # 0 /\ UNCHANGED <<kind, head>>
    BY <1>5 DEF Damage, ChainInv
  <2>. QED  BY <2>1 DEF HeadInv
<1>6. CASE DamageGenesis
  <2>1. damages' # 0 /\ UNCHANGED <<kind, head>>
    BY <1>6 DEF DamageGenesis, ChainInv
  <2>. QED  BY <2>1 DEF HeadInv
<1>7. CASE UNCHANGED vars
  BY <1>7 DEF vars, HeadInv
<1>. QED  BY <1>1, <1>2, <1>3, <1>4, <1>5, <1>6, <1>7 DEF Next

\* Verifying a log and meeting a head handed out earlier in it settles everything
\* before that head, for logs of every length and any damage (HeadPinsHistory:
\* head_hash, last_hash, from_json and verify).
THEOREM HeadsPinHistory == Spec => []HeadPinsHistory
<1>1. ASSUME ChainInv, HeadInv PROVE HeadPinsHistory
  <2> SUFFICES ASSUME Verifies(kind, Anchor(kind), chain),
                      NEW i \in DOMAIN chain, chain[i].hash = head.hash
               PROVE  BodiesOf(kind, SubSeq(chain, 1, i)) = head.bodies
    BY DEF HeadPinsHistory
  <2>1. PICK rs : /\ IsLog(rs) /\ Verifies(kind, Anchor(kind), rs)
                  /\ head.hash = HeadHash(Anchor(kind), rs)
                  /\ head.bodies = BodiesOf(kind, rs)
    BY <1>1 DEF HeadInv
  <2>2. PICK S : chain \in Seq(S)
    BY <1>1 DEF ChainInv, IsLog
  <2>3. chain[i].hash # Anchor(kind)
    BY <1>1, <2>2, Links, HashIsNoAnchor DEF IsLog
  <2>4. rs # <<>> /\ head.hash = rs[Len(rs)].hash
    BY <2>1, <2>3 DEF HeadHash
  <2>5. DOMAIN rs = 1 .. Len(rs) /\ Len(rs) \in Nat /\ Len(rs) \in DOMAIN rs
    BY <2>1, <2>4 DEF IsLog
  <2>6. /\ i = Len(rs)
        /\ \A m \in 1 .. i : Told(kind, chain[m]) = Told(kind, rs[m])
    <3>1. IsLog(chain)
      BY <1>1 DEF ChainInv
    <3>. QED  BY <2>1, <2>4, <2>5, <3>1, SharedHashSharedPast
  <2>7. i \in 1 .. Len(chain) /\ Len(chain) \in Nat
    BY <2>2
  <2>8. /\ DOMAIN SubSeq(chain, 1, i) = 1 .. i
        /\ \A m \in 1 .. i : SubSeq(chain, 1, i)[m] = chain[m]
    BY <2>2, <2>7
  <2>9. BodiesOf(kind, SubSeq(chain, 1, i)) = [m \in 1 .. i |-> Told(kind, chain[m])]
    BY <2>8 DEF BodiesOf
  <2>10. BodiesOf(kind, rs) = [m \in 1 .. i |-> Told(kind, rs[m])]
    BY <2>5, <2>6 DEF BodiesOf
  <2>11. [m \in 1 .. i |-> Told(kind, chain[m])] = [m \in 1 .. i |-> Told(kind, rs[m])]
    BY <2>6
  <2>. QED  BY <2>1, <2>9, <2>10, <2>11
<1>2. Spec => []HeadInv
  BY InitHead, NextHead, ChainInductive, PTL DEF Spec
<1>. QED  BY <1>1, <1>2, ChainInductive, PTL

=============================================================================
