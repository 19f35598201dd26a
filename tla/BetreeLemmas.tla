---------------------------- MODULE BetreeLemmas ----------------------------
(***************************************************************************)
(* Lemmas about the operators that the steps of the tree are built from:   *)
(* what a message map, a split and the cache keep whatever they are given. *)
(***************************************************************************)
EXTENDS Betree, FiniteInduction, FunctionTheorems, TLAPS

-----------------------------------------------------------------------------
(* Orders on finite sets. *)

\* A finite nonempty set has an element that is largest by some number.
LEMMA Greatest ==
  ASSUME NEW S, IsFiniteSet(S), S # {}, NEW f, \A x \in S : f[x] \in Int
  PROVE  \E x \in S : \A y \in S : f[y] <= f[x]
<1> DEFINE G == {T \in SUBSET S : T # {} => \E x \in T : \A y \in T : f[y] <= f[x]}
<1>1. {} \in G
  OBVIOUS
<1>2. ASSUME NEW T \in SUBSET S, NEW z \in S \ T, T \in G PROVE T \union {z} \in G
  <2>1. CASE T = {}
    BY <2>1
  <2>2. CASE T # {}
    <3>1. PICK x \in T : \A y \in T : f[y] <= f[x]
      BY <1>2, <2>2
    <3>2. CASE f[z] <= f[x]
      BY <3>1, <3>2
    <3>3. CASE f[x] <= f[z]
      <4>1. \A y \in T \union {z} : f[y] <= f[z]
        BY <3>1, <3>3
      <4> QED BY <4>1
    <3> QED BY <3>1, <3>2, <3>3
  <2> QED BY <2>1, <2>2
<1>3. S \in G
  <2> HIDE DEF G
  <2> QED BY <1>1, <1>2, SetInduction
<1> QED BY <1>3

-----------------------------------------------------------------------------
(* Messages. *)

\* A message that was sent before the clock showed `now`, and a buffer of them.
Message(now) == [key : Keys, ts : 1 .. now - 1, op : Opcodes, val : Seq(Nat)]
Buffer(now)  == {ms \in SUBSET Message(now) : IsFiniteSet(ms)}

\* What a leaf may hold: inserts, one for each key.
Inserts(ms) == \A m \in ms : m.op = "insert" /\ For(ms, m.key) = {m}

NodeOK(n, ids, now) ==
    /\ n = [pivots |-> n.pivots, elements |-> n.elements, epsilon |-> n.epsilon,
            node_level |-> n.node_level, ready_for_adoption |-> n.ready_for_adoption]
    /\ DOMAIN n.pivots \subseteq Keys
    /\ n.pivots \in [DOMAIN n.pivots -> ids]
    /\ n.elements \in Buffer(now)
    /\ IsLeaf(n) => Inserts(n.elements)


\* The newest of some messages is one of them.
LEMMA NewestIn ==
  ASSUME NEW now, NEW ms \in Buffer(now), NEW same \in SUBSET ms, same # {}
  PROVE  Newest(same) \in same
<1> DEFINE f == [m \in same |-> m.ts]
<1>1. IsFiniteSet(same)
  BY FS_Subset DEF Buffer
<1>2. \A m \in same : m.ts \in Int /\ f[m] = m.ts
  BY DEF Buffer, Message
<1>3. \E m \in same : \A n \in same : n.ts <= m.ts
  <2> HIDE DEF f
  <2>1. PICK m \in same : \A n \in same : f[n] <= f[m]
    BY <1>1, <1>2, Greatest
  <2> QED BY <1>2, <2>1
<1> QED BY <1>3 DEF Newest

\* The last message of a map is in it, and none is behind it.
LEMMA LastOfIn ==
  ASSUME NEW now, NEW ms \in Buffer(now), ms # {}
  PROVE  LastOf(ms) \in ms /\ \A y \in ms : ~MsgLess(LastOf(ms), y)
<1> DEFINE key == [m \in ms |-> m.key]
           ts  == [m \in ms |-> m.ts]
<1>1. IsFiniteSet(ms) /\ \A m \in ms : m.ts \in Int /\ m.key \in Int
  <2>1. ms \subseteq Message(now) /\ IsFiniteSet(ms)
    BY DEF Buffer
  <2>2. \A m \in Message(now) : m.ts \in Int /\ m.key \in Keys
    BY DEF Message
  <2> QED BY <2>1, <2>2, KeysAssumption
<1>2. PICK x \in ms : \A y \in ms : key[y] <= key[x]
  <2>1. \A m \in ms : key[m] \in Int
    BY <1>1
  <2> HIDE DEF key
  <2> QED BY <1>1, <2>1, Greatest
<1> DEFINE last == {m \in ms : m.key = x.key}
<1>3. PICK z \in last : \A y \in last : ts[y] <= ts[z]
  <2>1. /\ last # {} /\ IsFiniteSet(last)
        /\ \A m \in last : ts[m] \in Int
    BY <1>1, FS_Subset
  <2> HIDE DEF ts, last
  <2> QED BY <2>1, Greatest
<1>4. \A y \in ms : ~MsgLess(z, y)
  BY <1>1, <1>2, <1>3 DEF MsgLess
<1> QED BY <1>4 DEF LastOf

\* node::apply keeps a buffer a buffer, and a leaf free of updates and erases.
LEMMA ApplyKeeps ==
  ASSUME NEW now, NEW es \in Buffer(now), NEW m \in Message(now), NEW leaf \in BOOLEAN,
         leaf => Inserts(es)
  PROVE  /\ Apply(es, m, leaf) \in Buffer(now)
         /\ leaf => Inserts(Apply(es, m, leaf))
         /\ \A e \in Apply(es, m, leaf) : e \in es \/ e.key = m.key
<1>1. /\ es \subseteq Message(now) /\ IsFiniteSet(es)
      /\ \A e \in Message(now) : /\ e.key \in Keys /\ e.ts \in 1 .. now - 1
                                 /\ e.op \in Opcodes /\ e.val \in Seq(Nat)
  BY DEF Buffer, Message
<1> DEFINE others == Others(es, m)
<1>2. /\ others \subseteq es /\ IsFiniteSet(others)
      /\ \A e \in others : e.key # m.key
      /\ others \in Buffer(now) /\ (leaf => Inserts(others))
  <2>1. others \subseteq es /\ \A e \in others : e.key # m.key
    BY DEF Others, For
  <2>2. IsFiniteSet(others)
    BY <1>1, <2>1, FS_Subset
  <2>3. leaf => Inserts(others)
    BY <2>1 DEF Inserts, For
  <2> QED BY <1>1, <2>1, <2>2, <2>3 DEF Buffer
\* A message put beside those for other keys.
<1>3. ASSUME NEW x \in Message(now), x.key = m.key
      PROVE  /\ others \union {x} \in Buffer(now)
             /\ leaf /\ x.op = "insert" => Inserts(others \union {x})
             /\ \A e \in others \union {x} : e \in es \/ e.key = m.key
  <2>1. others \union {x} \in Buffer(now)
    BY <1>1, <1>2, <1>3, FS_AddElement DEF Buffer
  <2>2. ASSUME leaf, x.op = "insert" PROVE Inserts(others \union {x})
    <3> SUFFICES ASSUME NEW e \in others \union {x}
                 PROVE  e.op = "insert" /\ For(others \union {x}, e.key) = {e}
      BY DEF Inserts
    <3>1. CASE e = x
      BY <1>2, <1>3, <2>2, <3>1 DEF For
    <3>2. CASE e \in others
      BY <1>2, <1>3, <2>2, <3>2 DEF For, Inserts
    <3> QED BY <3>1, <3>2
  <2> QED BY <1>2, <1>3, <2>1, <2>2
\* ... and one put beside all that there is.
<1>4. es \union {m} \in Buffer(now)
  BY <1>1, FS_AddElement DEF Buffer
<1>5. CASE m.op = "insert"
  BY <1>3, <1>5 DEF Apply
<1>6. CASE m.op = "delete"
  BY <1>2, <1>3, <1>6 DEF Apply
<1>7. CASE m.op = "update"
  <2> DEFINE same == For(es, m.key)
  <2>1. ASSUME NEW v \in Seq(Nat)
        PROVE  LET x == [m EXCEPT !.op = "insert", !.val = v \o m.val]
               IN  x \in Message(now) /\ x.key = m.key /\ x.op = "insert"
    <3>1. v \o m.val \in Seq(Nat)
      BY <1>1
    <3> QED BY <3>1 DEF Message, Opcodes
  <2>2. CASE same = {} /\ leaf
    <3>1. << >> \in Seq(Nat)
      OBVIOUS
    <3> QED BY <1>3, <1>7, <2>1, <2>2, <3>1 DEF Apply, ApplyUpdate, Default
  <2>3. CASE same # {} /\ Newest(same).op = "insert"
    <3>1. Newest(same) \in es
      BY <2>3, NewestIn DEF For
    <3>2. Newest(same).val \in Seq(Nat)
      BY <1>1, <3>1
    <3> QED BY <1>3, <1>7, <2>1, <2>3, <3>2 DEF Apply, ApplyUpdate
  <2>4. CASE ~(same = {} /\ leaf) /\ ~(same # {} /\ Newest(same).op = "insert")
    <3>1. ~leaf
      <4>1. SUFFICES ASSUME leaf, same # {} PROVE Newest(same).op = "insert"
        BY <2>4
      <4>2. Newest(same) \in es
        BY <4>1, NewestIn DEF For
      <4> QED BY <4>1, <4>2 DEF Inserts
    <3>2. Apply(es, m, leaf) = es \union {m}
      BY <1>7, <2>4 DEF Apply, ApplyUpdate
    <3> QED BY <1>4, <3>1, <3>2
  <2> QED BY <2>2, <2>3, <2>4
<1> QED BY <1>1, <1>5, <1>6, <1>7 DEF Opcodes

\* node::apply() for all messages of a batch, as a fold with an invariant.
ApplyOne(c, m, es) == Apply(es, m, c.leaf)
ApplyInv(c, taken, es) ==
    es \in Buffer(c.now) /\ (c.leaf => Inserts(es)) /\ \A e \in es : e.key \in c.keys
Applying == INSTANCE FoldRule WITH op <- ApplyOne, choose <- LastOf, Inv <- ApplyInv

\* A batch that is applied leaves a buffer, and in a leaf one insert for each key;
\* no key is new.
LEMMA ApplyAllKeeps ==
  ASSUME NEW now, NEW es \in Buffer(now), NEW batch \in Buffer(now), NEW leaf \in BOOLEAN,
         leaf => Inserts(es)
  PROVE  /\ ApplyAll(es, batch, leaf) \in Buffer(now)
         /\ leaf => Inserts(ApplyAll(es, batch, leaf))
         /\ \A e \in ApplyAll(es, batch, leaf) : \E x \in es \union batch : x.key = e.key
<1> DEFINE keys == {x.key : x \in es \union batch}
           c    == [leaf |-> leaf, now |-> now, keys |-> keys]
<1>1. ApplyAll(es, batch, leaf) = Applying!Fold(c, es, batch)
  BY DEF ApplyAll, Applying!Fold, ApplyOne, MapThenFoldSet, Applying!MapThenFoldSet
<1>2. \A T \in SUBSET batch : T # {} => LastOf(T) \in T
  <2> SUFFICES ASSUME NEW T \in SUBSET batch, T # {} PROVE LastOf(T) \in T
    OBVIOUS
  <2>1. T \in Buffer(now)
    BY FS_Subset DEF Buffer
  <2> QED BY <2>1, LastOfIn
<1>3. ApplyInv(c, {}, es)
  BY DEF ApplyInv
<1>4. ASSUME NEW T \in SUBSET batch, NEW acc, T # {}, ApplyInv(c, T \ {LastOf(T)}, acc)
      PROVE  ApplyInv(c, T, ApplyOne(c, LastOf(T), acc))
  <2>1. LastOf(T) \in Message(now) /\ LastOf(T).key \in keys
    BY <1>2, <1>4 DEF Buffer
  <2>2. acc \in Buffer(now) /\ (leaf => Inserts(acc)) /\ \A e \in acc : e.key \in keys
    BY <1>4 DEF ApplyInv
  <2> QED BY <2>1, <2>2, ApplyKeeps DEF ApplyInv, ApplyOne
<1>5. Applying!IsFiniteSet(batch)
  BY DEF Buffer, IsFiniteSet, Applying!IsFiniteSet
<1> HIDE DEF c
<1>6. ApplyInv(c, batch, Applying!Fold(c, es, batch))
  BY <1>2, <1>3, <1>4, <1>5, Applying!FoldInvariant
<1>7. \A e \in ApplyAll(es, batch, leaf) : e.key \in keys
  BY <1>1, <1>6 DEF ApplyInv, c
<1> QED BY <1>1, <1>6, <1>7 DEF ApplyInv, c

-----------------------------------------------------------------------------
(* What the messages of a key come to. *)

\* Behind the first message for a key there are updates only, with later timestamps.
Orderly(es) ==
    \A a, b \in es : a.key = b.key /\ a # b =>
        \/ a.ts < b.ts /\ b.op = "update"
        \/ b.ts < a.ts /\ a.op = "update"

\* m is newer than what es has for its key.
Newer(es, m) == \A e \in es : e.key = m.key => e.ts < m.ts

Answers == Seq(Nat) \union {None}

\* The members of a message.
LEMMA MessageFields ==
  ASSUME NEW now, NEW ms \in Buffer(now)
  PROVE  /\ IsFiniteSet(ms) /\ ms \subseteq Message(now)
         /\ \A m \in ms : /\ m.key \in Keys /\ m.key \in Int /\ m.ts \in 1 .. now - 1
                          /\ m.ts \in Int /\ m.op \in Opcodes /\ m.val \in Seq(Nat)
         /\ \A S \in SUBSET ms : S \in Buffer(now)
<1>1. IsFiniteSet(ms) /\ ms \subseteq Message(now)
  BY DEF Buffer
<1>2. \A m \in Message(now) : /\ m.key \in Keys /\ m.ts \in 1 .. now - 1
                              /\ m.op \in Opcodes /\ m.val \in Seq(Nat)
  BY DEF Message
<1>6. \A m \in Message(now) : m.ts \in Int
  BY DEF Message
<1>3. ASSUME NEW S \in SUBSET ms PROVE S \in Buffer(now)
  BY <1>1, FS_Subset DEF Buffer
<1>4. \A m \in ms : /\ m.key \in Keys /\ m.ts \in 1 .. now - 1
                    /\ m.op \in Opcodes /\ m.val \in Seq(Nat)
  BY <1>1, <1>2
<1>5. \A m \in ms : m.key \in Int /\ m.ts \in Int
  BY <1>1, <1>4, <1>6, KeysAssumption
<1> QED BY <1>1, <1>3, <1>4, <1>5

\* Updates are put behind a value one by one, as a fold.
AddOne(c, m, acc) == acc \o m.val
AddInv(c, taken, acc) == acc \in Seq(Nat)
Adding == INSTANCE FoldRule WITH op <- AddOne, choose <- LastOf, Inv <- AddInv

LEMMA PlusIs ==
  ASSUME NEW now, NEW us \in Buffer(now), NEW v \in Seq(Nat)
  PROVE  /\ Plus(v, us) \in Seq(Nat)
         /\ Plus(v, us) = IF us = {} THEN v
                          ELSE Plus(v, us \ {LastOf(us)}) \o LastOf(us).val
<1>1. \A S : Plus(v, S) = Adding!Fold(0, v, S)
  BY DEF Plus, Adding!Fold, AddOne, MapThenFoldSet, Adding!MapThenFoldSet
<1>2. \A T \in SUBSET us : T # {} => LastOf(T) \in T
  BY MessageFields, LastOfIn
<1>3. Adding!IsFiniteSet(us)
  BY DEF Buffer, IsFiniteSet, Adding!IsFiniteSet
<1>4. AddInv(0, {}, v)
  BY DEF AddInv
<1>5. ASSUME NEW T \in SUBSET us, NEW acc, T # {}, AddInv(0, T \ {LastOf(T)}, acc)
      PROVE  AddInv(0, T, AddOne(0, LastOf(T), acc))
  <2>1. LastOf(T).val \in Seq(Nat) /\ acc \in Seq(Nat)
    BY <1>2, <1>5, MessageFields DEF AddInv
  <2> QED BY <2>1 DEF AddInv, AddOne
<1>6. AddInv(0, us, Adding!Fold(0, v, us))
  BY <1>2, <1>3, <1>4, <1>5, Adding!FoldInvariant
<1>7. Adding!Fold(0, v, us) = IF us = {} THEN v
                              ELSE AddOne(0, LastOf(us), Adding!Fold(0, v, us \ {LastOf(us)}))
  BY <1>2, <1>3, Adding!FoldOfMore
<1> QED BY <1>1, <1>6, <1>7 DEF AddInv, AddOne

\* The last and the first of some messages for one key.
LEMMA LastIs ==
  ASSUME NEW now, NEW ms \in Buffer(now), NEW m \in ms,
         \A n \in ms : n.key = m.key /\ (n # m => n.ts < m.ts)
  PROVE  LastOf(ms) = m
<1>1. \A n \in ms : n.ts \in Int /\ n.key \in Int
  BY MessageFields
<1>2. \A n \in ms : ~MsgLess(m, n)
  BY <1>1 DEF MsgLess
<1>3. \A n \in ms : n # m => MsgLess(n, m)
  BY <1>1 DEF MsgLess
<1> QED BY <1>2, <1>3 DEF LastOf

LEMMA EarliestIs ==
  ASSUME NEW now, NEW ms \in Buffer(now), NEW m \in ms,
         \A n \in ms : n.key = m.key /\ (n # m => m.ts < n.ts)
  PROVE  Earliest(ms) = m
<1>1. \A n \in ms : n.ts \in Int /\ n.key \in Int
  BY MessageFields
<1>2. \A n \in ms : ~MsgLess(n, m)
  BY <1>1 DEF MsgLess
<1>3. \A n \in ms : n # m => MsgLess(m, n)
  BY <1>1 DEF MsgLess
<1> QED BY <1>2, <1>3 DEF Earliest

\* The messages for a key have a first one.
LEMMA EarliestIn ==
  ASSUME NEW now, NEW es \in Buffer(now), Orderly(es), NEW k, For(es, k) # {}
  PROVE  LET ms == For(es, k) first == Earliest(ms)
         IN  /\ first \in ms
             /\ \A n \in ms : n.key = first.key /\ (n # first => first.ts < n.ts /\ n.op = "update")
<1> DEFINE ms == For(es, k)
           late == [m \in ms |-> 0 - m.ts]
<1>1. /\ ms \in Buffer(now) /\ IsFiniteSet(ms)
      /\ \A m \in ms : m \in es /\ m.key = k /\ m.ts \in Int
  BY MessageFields DEF For
<1>2. PICK f \in ms : \A n \in ms : late[n] <= late[f]
  <2>1. \A m \in ms : late[m] \in Int
    BY <1>1
  <2> HIDE DEF late, ms
  <2> QED BY <1>1, <2>1, Greatest DEF ms
<1>3. \A n \in ms : f.ts <= n.ts
  BY <1>1, <1>2
<1>4. \A n \in ms : n.key = f.key /\ (n # f => f.ts < n.ts /\ n.op = "update")
  <2> HIDE DEF ms
  <2> QED BY <1>1, <1>3 DEF Orderly
<1>5. Earliest(ms) = f
  <2> HIDE DEF ms
  <2> QED BY <1>1, <1>4, EarliestIs
<1> QED BY <1>4, <1>5

\* An answer is a value or "does not exist".
LEMMA EvalIn ==
  ASSUME NEW now, NEW es \in Buffer(now), Orderly(es), NEW k, NEW below \in Answers
  PROVE  /\ Eval(es, k, below) \in Answers
         /\ For(es, k) = {} => Eval(es, k, below) = below
<1> DEFINE ms == For(es, k)
           first == Earliest(ms)
<1>1. ms \in SUBSET es
  BY DEF For
<1>2. CASE ms = {}
  BY <1>2 DEF Eval
<1>3. CASE ms # {}
  <2>1. first \in es
    BY <1>1, <1>3, EarliestIn
  <2>2. first.op \in Opcodes /\ first.val \in Seq(Nat) /\ Default \in Seq(Nat)
    BY <2>1, MessageFields DEF Default
  <2>3. ms \in Buffer(now) /\ ms \ {first} \in Buffer(now)
    BY <1>1, MessageFields
  <2>4. \A v \in Seq(Nat) : Plus(v, ms) \in Answers /\ Plus(v, ms \ {first}) \in Answers
    BY <2>3, PlusIs DEF Answers
  <2>5. (IF below = None THEN Default ELSE below) \in Seq(Nat)
    BY <2>2 DEF Answers
  <2>6. None \in Answers
    BY DEF Answers
  <2> HIDE DEF ms, first
  <2>7. Eval(es, k, below) =
           CASE first.op = "update" -> Plus(IF below = None THEN Default ELSE below, ms)
             [] first.op = "insert" -> Plus(first.val, ms \ {first})
             [] first.op = "delete" -> IF ms = {first} THEN None
                                       ELSE Plus(Default, ms \ {first})
    BY <1>3 DEF Eval, ms, first
  <2> QED BY <1>3, <2>2, <2>4, <2>5, <2>6, <2>7 DEF Opcodes, ms
<1> QED BY <1>2, <1>3

\* Only the messages for a key count.
LEMMA EvalSame ==
  ASSUME NEW es, NEW fs, NEW k, For(es, k) = For(fs, k)
  PROVE  \A below : Eval(es, k, below) = Eval(fs, k, below)
BY DEF Eval

\* The newest message for a key takes effect on what the older ones come to.
LEMMA EvalNewest ==
  ASSUME NEW now, NEW es \in Buffer(now), Orderly(es), NEW m \in es, Newer(es \ {m}, m),
         NEW below \in Answers
  PROVE  Eval(es, m.key, below) = Reference!Effect(m.op, m.val, Eval(es \ {m}, m.key, below))
<1> DEFINE k     == m.key
           ms    == For(es, k)
           older == For(es \ {m}, k)
           base  == IF below = None THEN Default ELSE below
<1>1. /\ m.op \in Opcodes /\ m.val \in Seq(Nat) /\ Default \in Seq(Nat)
      /\ base \in Seq(Nat) /\ \A n \in es : n.ts \in Int
  BY MessageFields DEF Default, Answers
<1>2. /\ ms \in Buffer(now) /\ older \in Buffer(now) /\ es \ {m} \in Buffer(now)
      /\ Orderly(es \ {m}) /\ m \in ms /\ older = ms \ {m}
      /\ \A n \in older : n \in es /\ n # m /\ n.key = k
  <2>1. older = ms \ {m} /\ m \in ms
    BY DEF For
  <2> QED BY <2>1, MessageFields DEF For, Orderly
<1>3. \A n \in ms : n.key = m.key /\ (n # m => n.ts < m.ts)
  BY DEF For, Newer
<1>4. LastOf(ms) = m
  <2> HIDE DEF ms, older
  <2> QED BY <1>2, <1>3, LastIs
<1>5. \A v \in Seq(Nat) : Plus(v, ms) = Plus(v, older) \o m.val
  <2> HIDE DEF ms, older
  <2> QED BY <1>2, <1>4, PlusIs
<1>6. \A v \in Seq(Nat) : Plus(v, {}) = v
  <2>1. {} \in Buffer(now)
    BY FS_EmptySet DEF Buffer
  <2> QED BY <2>1, PlusIs
<1>7. CASE older = {}
  <2>1. ms = {m}
    BY <1>2, <1>7
  <2>2. Earliest(ms) = m
    BY <2>1 DEF Earliest, MsgLess
  <2>3. Eval(es \ {m}, k, below) = below
    BY <1>7 DEF Eval
  <2>4. Eval(es, k, below) = CASE m.op = "update" -> Plus(base, ms)
                               [] m.op = "insert" -> Plus(m.val, {})
                               [] m.op = "delete" -> None
    BY <2>1, <2>2 DEF Eval
  <2>5. Plus(base, ms) = base \o m.val
    BY <1>1, <1>5, <1>6, <1>7
  <2> HIDE DEF ms, older
  <2> QED BY <1>1, <1>6, <2>3, <2>4, <2>5
          DEF Opcodes, Reference!Effect, Reference!Default, Default
<1>8. CASE older # {}
  <2> DEFINE first == Earliest(older)
             rest  == older \ {first}
  <2>1. /\ first \in older
        /\ \A n \in older : n.key = first.key
                            /\ (n # first => first.ts < n.ts /\ n.op = "update")
    <3> HIDE DEF first
    <3> QED BY <1>2, <1>8, EarliestIn DEF first
  <2>2. first.ts < m.ts /\ first # m /\ first.key = m.key /\ first \in es
    <3> HIDE DEF ms, older, first
    <3> QED BY <1>2, <1>3, <2>1
  <2>3. m.op = "update"
    <3> HIDE DEF ms, older, first
    <3> QED BY <1>1, <2>2 DEF Orderly
  <2>4. Earliest(ms) = first
    <3>1. \A n \in ms : n.key = first.key /\ (n # first => first.ts < n.ts)
      <4> HIDE DEF ms, older, first
      <4> QED BY <1>2, <1>3, <2>1, <2>2
    <3>2. first \in ms
      BY <1>2, <2>1
    <3> HIDE DEF ms, first
    <3> QED BY <1>2, <3>1, <3>2, EarliestIs
  <2>5. Eval(es, k, below) =
           CASE first.op = "update" -> Plus(base, ms)
             [] first.op = "insert" -> Plus(first.val, ms \ {first})
             [] first.op = "delete" -> IF ms = {first} THEN None
                                       ELSE Plus(Default, ms \ {first})
    <3>1. ms # {}
      BY <1>2
    <3> HIDE DEF first
    <3> QED BY <2>4, <3>1 DEF Eval
  <2>6. Eval(es \ {m}, k, below) =
           CASE first.op = "update" -> Plus(base, older)
             [] first.op = "insert" -> Plus(first.val, rest)
             [] first.op = "delete" -> IF older = {first} THEN None ELSE Plus(Default, rest)
    BY <1>8 DEF Eval
  <2>7. /\ ms \ {first} \in Buffer(now) /\ rest \in Buffer(now)
        /\ ms \ {first} # {} /\ rest = (ms \ {first}) \ {m} /\ ms # {first}
        /\ (older = {first} <=> rest = {})
    <3>1. ms \ {first} \subseteq ms /\ rest \subseteq older
      OBVIOUS
    <3> HIDE DEF ms, older, first
    <3>2. ms \ {first} \in Buffer(now) /\ rest \in Buffer(now)
      BY <1>2, <3>1, MessageFields
    <3>3. rest = (ms \ {first}) \ {m} /\ m \in ms \ {first} /\ m \notin older
      BY <1>2, <2>2
    <3> QED BY <2>1, <3>2, <3>3
  <2>8. \A v \in Seq(Nat) : Plus(v, ms \ {first}) = Plus(v, rest) \o m.val
    <3>1. LastOf(ms \ {first}) = m
      <4>1. m \in ms \ {first} /\ \A n \in ms \ {first} : n.key = m.key /\ (n # m => n.ts < m.ts)
        BY <1>2, <1>3, <2>2
      <4> HIDE DEF ms, first
      <4> QED BY <2>7, <4>1, LastIs
    <3> HIDE DEF ms, first, rest, older
    <3> QED BY <2>7, <3>1, PlusIs
  <2>9. \A v \in Seq(Nat) : Plus(v, older) \in Seq(Nat) /\ Plus(v, rest) \in Seq(Nat)
    <3> HIDE DEF rest, older
    <3> QED BY <1>2, <2>7, PlusIs
  <2>10. first.op \in Opcodes /\ first.val \in Seq(Nat)
    BY <2>2, MessageFields
  <2> HIDE DEF ms, older, first, rest, base
  <2>11. CASE first.op = "update"
    BY <1>1, <1>5, <2>3, <2>5, <2>6, <2>9, <2>11, NoneAssumption
       DEF Reference!Effect, Reference!Default
  <2>12. CASE first.op = "insert"
    BY <1>1, <2>3, <2>5, <2>6, <2>8, <2>9, <2>10, <2>12, NoneAssumption
       DEF Reference!Effect, Reference!Default
  <2>13. CASE first.op = "delete"
    <3>1. Eval(es, k, below) = Plus(Default, rest) \o m.val
      BY <1>1, <2>5, <2>7, <2>8, <2>13
    <3>2. (IF Eval(es \ {m}, k, below) = None THEN Default ELSE Eval(es \ {m}, k, below))
            = Plus(Default, rest)
      <4>1. CASE older = {first}
        <5>1. Plus(Default, rest) = Default
          BY <1>1, <1>6, <2>7, <4>1
        <5> QED BY <2>6, <2>13, <4>1, <5>1
      <4>2. CASE older # {first}
        <5>1. Plus(Default, rest) # None
          BY <1>1, <2>9, NoneAssumption
        <5> QED BY <2>6, <2>13, <4>2, <5>1
      <4> QED BY <4>1, <4>2
    <3>3. Reference!Effect("update", m.val, Eval(es \ {m}, k, below))
             = Plus(Default, rest) \o m.val
      BY <3>2 DEF Reference!Effect, Reference!Default, Default
    <3> QED BY <2>3, <3>1, <3>3
  <2> QED BY <2>10, <2>11, <2>12, <2>13 DEF Opcodes
<1> QED BY <1>7, <1>8

\* One insert or erase decides.
LEMMA EvalOne ==
  ASSUME NEW es, NEW k, NEW m, For(es, k) = {m}, m.val \in Seq(Nat), NEW below
  PROVE  /\ m.op = "insert" => Eval(es, k, below) = m.val
         /\ m.op = "delete" => Eval(es, k, below) = None
<1>1. Earliest({m}) = m
  BY DEF Earliest, MsgLess
<1>2. {} \in Buffer(0)
  BY FS_EmptySet DEF Buffer
<1>3. Plus(m.val, {}) = m.val
  BY <1>2, PlusIs
<1> QED BY <1>1, <1>3 DEF Eval

\* node::apply leaves the messages for other keys as they are ...
LEMMA OthersAre ==
  ASSUME NEW es, NEW m, Orderly(es)
  PROVE  /\ Others(es, m) \subseteq es /\ \A e \in Others(es, m) : e.key # m.key
         /\ For(Others(es, m), m.key) = {} /\ Orderly(Others(es, m))
         /\ \A k : k # m.key => For(Others(es, m), k) = For(es, k)
<1>1. \A e \in Others(es, m) : e \in es /\ e.key # m.key
  BY DEF Others, For
<1>2. \A e \in es : e.key # m.key => e \in Others(es, m)
  BY DEF Others, For
<1>3. For(Others(es, m), m.key) = {} /\ Orderly(Others(es, m))
  BY <1>1 DEF For, Orderly
<1>4. \A k : k # m.key => For(Others(es, m), k) = For(es, k)
  BY <1>1, <1>2 DEF For
<1> QED BY <1>1, <1>3, <1>4

\* ... and may put one message beside them.
LEMMA InPlace ==
  ASSUME NEW es, NEW m, Orderly(es)
  PROVE  \A x : x.key = m.key =>
            /\ Orderly(Others(es, m) \union {x})
            /\ For(Others(es, m) \union {x}, m.key) = {x}
            /\ \A k : k # m.key => For(Others(es, m) \union {x}, k) = For(es, k)
<1> SUFFICES ASSUME NEW x, x.key = m.key
             PROVE  /\ Orderly(Others(es, m) \union {x})
                    /\ For(Others(es, m) \union {x}, m.key) = {x}
                    /\ \A k : k # m.key => For(Others(es, m) \union {x}, k) = For(es, k)
  OBVIOUS
<1>1. /\ \A e \in Others(es, m) : e.key # m.key
      /\ \A k : k # m.key => For(Others(es, m), k) = For(es, k)
      /\ Orderly(Others(es, m))
  BY OthersAre
<1>2. Orderly(Others(es, m) \union {x})
  BY <1>1 DEF Orderly
<1>3. For(Others(es, m) \union {x}, m.key) = {x}
  BY <1>1 DEF For
<1>4. \A k : k # m.key => For(Others(es, m) \union {x}, k) = For(es, k)
  BY <1>1 DEF For
<1> QED BY <1>2, <1>3, <1>4

\* node::apply gives a message that is newer than all for its key its effect on what
\* they come to, and leaves the buffer in order.
LEMMA ApplyEval ==
  ASSUME NEW now, NEW es \in Buffer(now), Orderly(es), NEW m \in Message(now), Newer(es, m),
         NEW leaf \in BOOLEAN, leaf => Inserts(es)
  PROVE  LET fs == Apply(es, m, leaf)
         IN  /\ Orderly(fs)
             /\ \A e \in fs : \E x \in es \union {m} : x.key = e.key /\ x.ts = e.ts
             /\ \A below \in Answers : (leaf => below = None) =>
                   /\ Eval(fs, m.key, below)
                         = Reference!Effect(m.op, m.val, Eval(es, m.key, below))
                   /\ \A k : k # m.key => Eval(fs, k, below) = Eval(es, k, below)
<1>1. m.op \in Opcodes /\ m.val \in Seq(Nat) /\ m.ts \in Int
  BY DEF Message
<1> DEFINE Right(fs) ==
             /\ Orderly(fs)
             /\ \A e \in fs : \E x \in es \union {m} : x.key = e.key /\ x.ts = e.ts
             /\ \A below \in Answers : (leaf => below = None) =>
                   /\ Eval(fs, m.key, below)
                         = Reference!Effect(m.op, m.val, Eval(es, m.key, below))
                   /\ \A k : k # m.key => Eval(fs, k, below) = Eval(es, k, below)
<1>2. ASSUME NEW x, x.key = m.key, x.ts = m.ts, x.val \in Seq(Nat),
             \/ x.op = "insert" /\ \A below \in Answers : (leaf => below = None) =>
                   x.val = Reference!Effect(m.op, m.val, Eval(es, m.key, below))
             \/ x.op = "delete" /\ \A below \in Answers : (leaf => below = None) =>
                   None = Reference!Effect(m.op, m.val, Eval(es, m.key, below))
      PROVE  Right(Others(es, m) \union {x})
  <2> DEFINE fs == Others(es, m) \union {x}
  <2>1. /\ Orderly(fs) /\ For(fs, m.key) = {x}
        /\ \A k : k # m.key => For(fs, k) = For(es, k)
    <3>1. \A z : z.key = m.key =>
             /\ Orderly(Others(es, m) \union {z})
             /\ For(Others(es, m) \union {z}, m.key) = {z}
             /\ \A k : k # m.key => For(Others(es, m) \union {z}, k) = For(es, k)
      BY InPlace
    <3> QED BY <1>2, <3>1
  <2>2. \A below : /\ x.op = "insert" => Eval(fs, m.key, below) = x.val
                   /\ x.op = "delete" => Eval(fs, m.key, below) = None
    <3> HIDE DEF fs
    <3> QED BY <1>2, <2>1, EvalOne
  <2>3. \A k : k # m.key => \A below : Eval(fs, k, below) = Eval(es, k, below)
    <3> HIDE DEF fs
    <3> QED BY <2>1, EvalSame
  <2>4. \A e \in fs : \E y \in es \union {m} : y.key = e.key /\ y.ts = e.ts
    <3>1. Others(es, m) \subseteq es
      BY OthersAre
    <3> QED BY <1>2, <3>1
  <2> HIDE DEF fs
  <2>5. \A below \in Answers : (leaf => below = None) =>
           Eval(fs, m.key, below) = Reference!Effect(m.op, m.val, Eval(es, m.key, below))
    BY <1>2, <2>2
  <2>6. Right(fs)
    BY <2>1, <2>3, <2>4, <2>5
  <2> QED BY <2>6 DEF fs
<1>3. CASE m.op = "insert"
  <2>1. Right(Others(es, m) \union {m})
    <3> HIDE DEF Right
    <3> QED BY <1>1, <1>2, <1>3 DEF Reference!Effect
  <2> QED BY <1>3, <2>1 DEF Apply
<1>4. CASE m.op = "delete" /\ leaf
  <2>1. /\ For(Others(es, m), m.key) = {} /\ Orderly(Others(es, m))
        /\ \A k : k # m.key => For(Others(es, m), k) = For(es, k)
        /\ Others(es, m) \subseteq es
    BY OthersAre
  <2>2. \A below : Eval(Others(es, m), m.key, below) = below
    BY <2>1 DEF Eval
  <2>3. \A k : k # m.key => \A below : Eval(Others(es, m), k, below) = Eval(es, k, below)
    BY <2>1, EvalSame
  <2>4. Right(Others(es, m))
    BY <1>4, <2>1, <2>2, <2>3 DEF Reference!Effect
  <2> QED BY <1>4, <2>4 DEF Apply
<1>5. CASE m.op = "delete" /\ ~leaf
  <2>1. Right(Others(es, m) \union {m})
    <3> HIDE DEF Right
    <3> QED BY <1>1, <1>2, <1>5 DEF Reference!Effect
  <2> QED BY <1>5, <2>1 DEF Apply
<1>6. CASE m.op = "update"
  <2> DEFINE same == For(es, m.key)
             Onto(v) == [m EXCEPT !.op = "insert", !.val = v \o m.val]
  <2>1. ASSUME NEW v \in Seq(Nat)
        PROVE  /\ Onto(v).key = m.key /\ Onto(v).ts = m.ts /\ Onto(v).op = "insert"
               /\ Onto(v).val = v \o m.val /\ v \o m.val \in Seq(Nat)
    BY <1>1 DEF Message
  <2>2. CASE same = {} /\ leaf
    <3>1. Default \in Seq(Nat)
      BY DEF Default
    <3>2. \A below \in Answers : (leaf => below = None) => Eval(es, m.key, below) = None
      BY <2>2 DEF Eval
    <3>3. Right(Others(es, m) \union {Onto(Default)})
      <4>1. \A below \in Answers : (leaf => below = None) =>
               Default \o m.val = Reference!Effect(m.op, m.val, Eval(es, m.key, below))
        BY <1>6, <3>2 DEF Reference!Effect, Reference!Default, Default
      <4> HIDE DEF Right, Onto
      <4> QED BY <1>2, <2>1, <3>1, <4>1
    <3>4. Apply(es, m, leaf) = Others(es, m) \union {Onto(Default)}
      BY <1>6, <2>2 DEF Apply, ApplyUpdate
    <3> QED BY <3>3, <3>4
  <2>3. CASE same # {} /\ Newest(same).op = "insert"
    <3> DEFINE x == Newest(same)
    <3>1. x \in same /\ \A n \in same : n.ts <= x.ts
      <4>1. \E z \in same : \A n \in same : n.ts <= z.ts
        <5> DEFINE f == [n \in same |-> n.ts]
        <5>1. IsFiniteSet(same) /\ \A n \in same : f[n] \in Int
          <6>1. same \subseteq es
            BY DEF For
          <6> QED BY <6>1, MessageFields, FS_Subset
        <5>2. PICK z \in same : \A n \in same : f[n] <= f[z]
          <6> HIDE DEF f, same
          <6> QED BY <2>3, <5>1, Greatest
        <5> QED BY <5>2
      <4> QED BY <4>1 DEF Newest
    <3>2. x \in es /\ x.key = m.key /\ x.op = "insert" /\ x.val \in Seq(Nat)
      <4>1. x \in es /\ x.key = m.key
        BY <3>1 DEF For
      <4> HIDE DEF x
      <4> QED BY <2>3, <4>1, MessageFields DEF x
    <3>3. same = {x}
      <4> SUFFICES ASSUME NEW n \in same, n # x PROVE FALSE
        BY <3>1
      <4>1. n \in es /\ n.key = x.key /\ n.ts \in Int /\ x.ts \in Int /\ n.ts <= x.ts
        <5>1. n \in es /\ n.key = m.key
          BY DEF For
        <5> QED BY <3>1, <3>2, <5>1, MessageFields
      <4> HIDE DEF x, same
      <4> QED BY <3>2, <4>1 DEF Orderly
    <3>4. \A below : Eval(es, m.key, below) = x.val
      <4> HIDE DEF x
      <4> QED BY <3>2, <3>3, EvalOne
    <3>5. Right(Others(es, m) \union {Onto(x.val)})
      <4>1. \A below \in Answers : (leaf => below = None) =>
               x.val \o m.val = Reference!Effect(m.op, m.val, Eval(es, m.key, below))
        BY <1>6, <3>2, <3>4, NoneAssumption DEF Reference!Effect
      <4> HIDE DEF Right, Onto, x
      <4> QED BY <1>2, <2>1, <3>2, <4>1
    <3>6. Apply(es, m, leaf) = Others(es, m) \union {Onto(x.val)}
      BY <1>6, <2>3 DEF Apply, ApplyUpdate
    <3> QED BY <3>5, <3>6
  <2>4. CASE ~(same = {} /\ leaf) /\ ~(same # {} /\ Newest(same).op = "insert")
    <3> DEFINE fs == es \union {m}
    <3>1. Apply(es, m, leaf) = fs
      BY <1>6, <2>4 DEF Apply, ApplyUpdate
    <3>2. m \notin es
      BY <1>1 DEF Newer
    <3>3. fs \in Buffer(now) /\ fs \ {m} = es
      BY <3>2, FS_AddElement DEF Buffer
    <3>4. Orderly(fs)
      <4> SUFFICES ASSUME NEW a \in fs, NEW b \in fs, a.key = b.key, a # b
                   PROVE  \/ a.ts < b.ts /\ b.op = "update"
                          \/ b.ts < a.ts /\ a.op = "update"
        BY DEF Orderly
      <4>1. CASE a \in es /\ b \in es
        <5> HIDE DEF fs
        <5> QED BY <4>1 DEF Orderly
      <4>2. CASE a \in es /\ b = m
        <5>1. a.ts < m.ts
          BY <4>2 DEF Newer
        <5> QED BY <1>6, <4>2, <5>1
      <4>3. CASE a = m /\ b \in es
        <5>1. b.ts < m.ts
          BY <4>3 DEF Newer
        <5> QED BY <1>6, <4>3, <5>1
      <4> QED BY <4>1, <4>2, <4>3
    <3>5. \A below \in Answers :
             Eval(fs, m.key, below) = Reference!Effect(m.op, m.val, Eval(es, m.key, below))
      <4>1. m \in fs
        OBVIOUS
      <4> HIDE DEF fs
      <4> QED BY <3>3, <3>4, <4>1, EvalNewest
    <3>6. \A k : k # m.key => \A below : Eval(fs, k, below) = Eval(es, k, below)
      <4>1. \A k : k # m.key => For(fs, k) = For(es, k)
        BY DEF For
      <4> HIDE DEF fs
      <4> QED BY <4>1, EvalSame
    <3>7. \A e \in fs : \E x \in es \union {m} : x.key = e.key /\ x.ts = e.ts
      OBVIOUS
    <3> HIDE DEF fs
    <3> QED BY <3>1, <3>4, <3>5, <3>6, <3>7
  <2> QED BY <2>2, <2>3, <2>4
<1> QED BY <1>1, <1>3, <1>4, <1>5, <1>6 DEF Opcodes

\* node::apply() for a batch that is newer than the buffer, as a fold with what it
\* comes to as its invariant.
EffectInv(c, taken, fs) ==
    /\ fs \in Buffer(c.now) /\ Orderly(fs) /\ (c.leaf => Inserts(fs))
    /\ \A e \in fs : \E x \in c.es \union taken : x.key = e.key /\ x.ts = e.ts
    /\ \A below \in Answers : (c.leaf => below = None) =>
          \A k : Eval(fs, k, below) = Eval(taken, k, Eval(c.es, k, below))
Effecting == INSTANCE FoldRule WITH op <- ApplyOne, choose <- LastOf, Inv <- EffectInv

LEMMA ApplyAllEval ==
  ASSUME NEW now, NEW es \in Buffer(now), NEW batch \in Buffer(now), NEW leaf \in BOOLEAN,
         leaf => Inserts(es), Orderly(es), Orderly(batch), \A m \in batch : Newer(es, m)
  PROVE  LET fs == ApplyAll(es, batch, leaf)
         IN  /\ Orderly(fs)
             /\ \A e \in fs : \E x \in es \union batch : x.key = e.key /\ x.ts = e.ts
             /\ \A below \in Answers : (leaf => below = None) =>
                   \A k : Eval(fs, k, below) = Eval(batch, k, Eval(es, k, below))
<1> DEFINE c == [leaf |-> leaf, now |-> now, es |-> es]
<1>1. ApplyAll(es, batch, leaf) = Effecting!Fold(c, es, batch)
  BY DEF ApplyAll, Effecting!Fold, ApplyOne, MapThenFoldSet, Effecting!MapThenFoldSet
<1>2. \A T \in SUBSET batch : T \in Buffer(now) /\ (T # {} => LastOf(T) \in T)
  BY MessageFields, LastOfIn
<1>3. EffectInv(c, {}, es)
  <2>1. \A k : \A below : Eval({}, k, below) = below
    BY DEF Eval, For
  <2> QED BY <2>1 DEF EffectInv
<1>4. ASSUME NEW T \in SUBSET batch, NEW acc, T # {}, EffectInv(c, T \ {LastOf(T)}, acc)
      PROVE  EffectInv(c, T, ApplyOne(c, LastOf(T), acc))
  <2> DEFINE m == LastOf(T)
             S == T \ {m}
             fs == Apply(acc, m, leaf)
  <2>1. /\ m \in T /\ m \in batch /\ T \in Buffer(now) /\ Orderly(T) /\ m \in Message(now)
        /\ \A n \in T : n.ts \in Int /\ n.key \in Int
    <3>1. m \in T /\ T \in Buffer(now)
      BY <1>2, <1>4
    <3>2. Orderly(T)
      BY DEF Orderly
    <3> HIDE DEF m
    <3> QED BY <3>1, <3>2, MessageFields
  <2>2. /\ acc \in Buffer(now) /\ Orderly(acc) /\ (leaf => Inserts(acc))
        /\ \A e \in acc : \E x \in es \union S : x.key = e.key /\ x.ts = e.ts
        /\ \A below \in Answers : (leaf => below = None) =>
              \A k : Eval(acc, k, below) = Eval(S, k, Eval(es, k, below))
    <3>1. EffectInv(c, S, acc)
      BY <1>4
    <3> HIDE DEF S
    <3> QED BY <3>1 DEF EffectInv
  <2>3. Newer(S, m)
    <3> SUFFICES ASSUME NEW n \in S, n.key = m.key PROVE n.ts < m.ts
      BY DEF Newer
    <3>1. n \in T /\ n # m
      OBVIOUS
    <3>2. ~MsgLess(m, n)
      <4>1. \A y \in T : ~MsgLess(LastOf(T), y)
        BY <1>2, <1>4, LastOfIn
      <4> QED BY <3>1, <4>1
    <3> HIDE DEF m, S
    <3>3. n.ts <= m.ts
      BY <2>1, <3>1, <3>2 DEF MsgLess
    <3> QED BY <2>1, <3>1, <3>3 DEF Orderly
  <2>4. Newer(acc, m)
    <3> SUFFICES ASSUME NEW e \in acc, e.key = m.key PROVE e.ts < m.ts
      BY DEF Newer
    <3> HIDE DEF m, S
    <3>1. PICK x \in es \union S : x.key = e.key /\ x.ts = e.ts
      BY <2>2
    <3>2. CASE x \in es
      BY <2>1, <3>1, <3>2 DEF Newer
    <3>3. CASE x \in S
      BY <2>3, <3>1, <3>3 DEF Newer
    <3> QED BY <3>2, <3>3
  <2>5. /\ Orderly(fs)
        /\ \A e \in fs : \E x \in acc \union {m} : x.key = e.key /\ x.ts = e.ts
        /\ \A below \in Answers : (leaf => below = None) =>
              /\ Eval(fs, m.key, below)
                    = Reference!Effect(m.op, m.val, Eval(acc, m.key, below))
              /\ \A k : k # m.key => Eval(fs, k, below) = Eval(acc, k, below)
    <3> HIDE DEF m
    <3> QED BY <2>1, <2>2, <2>4, ApplyEval
  <2>6. fs \in Buffer(now) /\ (leaf => Inserts(fs))
    <3> HIDE DEF m
    <3> QED BY <2>1, <2>2, ApplyKeeps
  <2>7. \A e \in fs : \E x \in es \union T : x.key = e.key /\ x.ts = e.ts
    <3> SUFFICES ASSUME NEW e \in fs PROVE \E x \in es \union T : x.key = e.key /\ x.ts = e.ts
      OBVIOUS
    <3>1. S \subseteq T
      OBVIOUS
    <3> HIDE DEF fs, m, S
    <3>2. PICK y \in acc \union {m} : y.key = e.key /\ y.ts = e.ts
      BY <2>5
    <3>3. CASE y = m
      BY <2>1, <3>2, <3>3
    <3>4. CASE y \in acc
      <4>1. PICK x \in es \union S : x.key = y.key /\ x.ts = y.ts
        BY <2>2, <3>4
      <4> QED BY <3>1, <3>2, <4>1
    <3> QED BY <3>3, <3>4
  <2>8. ASSUME NEW below \in Answers, leaf => below = None, NEW k
        PROVE  Eval(fs, k, below) = Eval(T, k, Eval(es, k, below))
    <3>1. Eval(es, k, below) \in Answers
      BY EvalIn
    <3>2. Eval(acc, k, below) = Eval(S, k, Eval(es, k, below))
      <4> HIDE DEF m, S
      <4> QED BY <2>2, <2>8
    <3>3. CASE k = m.key
      <4>1. \A b \in Answers : Eval(T, m.key, b) = Reference!Effect(m.op, m.val, Eval(S, m.key, b))
        <5> HIDE DEF m
        <5> QED BY <2>1, <2>3, EvalNewest
      <4>2. Eval(fs, m.key, below) = Reference!Effect(m.op, m.val, Eval(acc, m.key, below))
        <5> HIDE DEF fs, m
        <5> QED BY <2>5, <2>8
      <4> HIDE DEF fs, m, S
      <4> QED BY <3>1, <3>2, <3>3, <4>1, <4>2
    <3>4. CASE k # m.key
      <4>1. For(T, k) = For(S, k)
        BY <3>4 DEF For
      <4>2. \A b : Eval(T, k, b) = Eval(S, k, b)
        <5> HIDE DEF m, S
        <5> QED BY <4>1, EvalSame
      <4>3. Eval(fs, k, below) = Eval(acc, k, below)
        <5> HIDE DEF fs, m
        <5> QED BY <2>5, <2>8, <3>4
      <4> QED BY <3>2, <4>2, <4>3
    <3> QED BY <3>3, <3>4
  <2>9. EffectInv(c, T, fs)
    <3> HIDE DEF fs
    <3> QED BY <2>5, <2>6, <2>7, <2>8 DEF EffectInv
  <2> QED BY <2>9 DEF ApplyOne
<1>5. Effecting!IsFiniteSet(batch)
  BY DEF Buffer, IsFiniteSet, Effecting!IsFiniteSet
<1> HIDE DEF c
<1>6. EffectInv(c, batch, Effecting!Fold(c, es, batch))
  BY <1>2, <1>3, <1>4, <1>5, Effecting!FoldInvariant
<1>7. EffectInv(c, batch, ApplyAll(es, batch, leaf))
  BY <1>1, <1>6
<1> QED BY <1>7 DEF EffectInv, c

-----------------------------------------------------------------------------
(* The cache. *)

\* A cache of some of these nodes, with limits that leave room for a message.  upsert
\* and query take the non-const operator-> only, so that what is in memory is dirty.
CacheOK(c, ids) ==
    /\ Cache!Resident(c) \subseteq ids /\ IsFiniteSet(Cache!Resident(c))
    /\ c.lru \in [Cache!Resident(c) -> Nat]
    /\ \A x, y \in Cache!Resident(c) : c.lru[x] = c.lru[y] => x = y
    /\ c.dirty = Cache!Resident(c)
    /\ c.count \in 0 .. Word - 1
    /\ DOMAIN c.members = Cache!Resident(c)
    /\ \A o \in Cache!Resident(c) : c.members[o].max_pivots \in 0 .. NodeSize - 1

\* The instance of the cache counts as this module does.
LEMMA CardinalityInCache ==
  ASSUME NEW S
  PROVE  Cache!Cardinality(S) = Cardinality(S)
  BY DEF Cardinality, Cache!Cardinality, IsFiniteSet, Cache!IsFiniteSet

\* A queue with fewer objects has them in other places, each in one of its own.
LEMMA OnlyQueue ==
  ASSUME NEW D, IsFiniteSet(D), NEW q \in [D -> Nat],
         \A x, y \in D : q[x] = q[y] => x = y,
         NEW kept \in SUBSET D
  PROVE  LET r == Cache!Only(q, kept)
         IN  /\ r \in [kept -> Nat]
             /\ \A x, y \in kept : r[x] = r[y] => x = y
             /\ \A x \in kept : r[x] <= Cardinality(kept)
<1> DEFINE r       == Cache!Only(q, kept)
           upTo(o) == {x \in kept : q[x] <= q[o]}
<1>1. /\ r = [o \in kept |-> Cardinality(upTo(o))]
  BY CardinalityInCache DEF Cache!Only
<1>2. \A o \in kept : IsFiniteSet(upTo(o)) /\ Cardinality(upTo(o)) \in Nat
                      /\ Cardinality(upTo(o)) <= Cardinality(kept)
  <2>1. IsFiniteSet(kept)
    BY FS_Subset
  <2> QED BY <2>1, FS_Subset, FS_CardinalityType
<1>3. ASSUME NEW x \in kept, NEW y \in kept, q[x] < q[y]
      PROVE  Cardinality(upTo(x)) # Cardinality(upTo(y))
  <2>1. upTo(x) \subseteq upTo(y) /\ y \in upTo(y) /\ y \notin upTo(x)
    BY <1>3
  <2> HIDE DEF upTo
  <2> QED BY <1>2, <2>1, FS_Subset
<1> HIDE DEF upTo
<1>4. \A x, y \in kept : r[x] = r[y] => x = y
  <2> SUFFICES ASSUME NEW x \in kept, NEW y \in kept, x # y PROVE r[x] # r[y]
    OBVIOUS
  <2>1. q[x] < q[y] \/ q[y] < q[x]
    OBVIOUS
  <2> HIDE DEF r
  <2> QED BY <1>1, <1>3, <2>1
<1> QED BY <1>1, <1>2, <1>4

\* Objects that leave memory leave the cache in order.
LEMMA LeaveKeeps ==
  ASSUME NEW c, NEW ids, CacheOK(c, ids), NEW victims, NEW count \in 0 .. Word - 1
  PROVE  LET left == Cache!Leave(c, victims, count)
         IN  /\ CacheOK(left, ids \ victims)
             /\ Cache!Resident(left) = Cache!Resident(c) \ victims
<1> DEFINE left == Cache!Leave(c, victims, count)
           kept == Cache!Resident(c) \ victims
<1>1. /\ left.lru = Cache!Only(c.lru, kept) /\ left.dirty = c.dirty \ victims
      /\ left.count = count /\ left.members = Cache!Restrict(c.members, kept)
  BY DEF Cache!Leave
<1>2. /\ left.lru \in [kept -> Nat]
      /\ \A x, y \in kept : left.lru[x] = left.lru[y] => x = y
  BY <1>1, OnlyQueue DEF CacheOK
<1> HIDE DEF left
<1>3. Cache!Resident(left) = kept
  BY <1>2 DEF Cache!Resident
<1>4. IsFiniteSet(kept) /\ kept \subseteq ids \ victims
  BY FS_Subset DEF CacheOK
<1>5. /\ DOMAIN left.members = kept
      /\ \A o \in kept : left.members[o] = c.members[o]
  BY <1>1 DEF Cache!Restrict
<1>6. left.dirty = kept
  BY <1>1 DEF CacheOK
<1>7. \A o \in kept : left.members[o].max_pivots \in 0 .. NodeSize - 1
  BY <1>5 DEF CacheOK
<1> QED BY <1>1, <1>2, <1>3, <1>4, <1>5, <1>6, <1>7 DEF CacheOK, left

\* An eviction takes no more objects than the counter is above the limit by.
LEMMA OldestBound ==
  ASSUME NEW c, NEW ids, CacheOK(c, ids), NEW objects \in SUBSET Cache!Resident(c)
  PROVE  c.count - Cardinality(Cache!Oldest(c, objects)) \in 0 .. Word - 1
<1> DEFINE older(o) == {x \in objects : c.lru[x] < c.lru[o]}
           excess   == c.count - CacheSize
           oldest   == {o \in objects : Cardinality(older(o)) < excess}
<1>1. Cache!Oldest(c, objects) = oldest
  BY CardinalityInCache DEF Cache!Oldest
<1>2. IsFiniteSet(objects) /\ IsFiniteSet(oldest)
  BY FS_Subset DEF CacheOK
<1>3. \A o \in objects : IsFiniteSet(older(o)) /\ Cardinality(older(o)) \in Nat
  BY <1>2, FS_Subset, FS_CardinalityType
<1>4. /\ c.count \in 0 .. Word - 1 /\ CacheSize \in Nat /\ Word \in Nat
      /\ Cardinality(oldest) \in Nat /\ excess \in Int /\ excess <= c.count
  BY <1>2, FS_CardinalityType, CacheAssumption DEF CacheOK
<1> HIDE DEF excess
<1>5. CASE excess <= 0
  <2>1. \A o \in objects : ~(Cardinality(older(o)) < excess)
    <3> HIDE DEF older
    <3> QED BY <1>3, <1>4, <1>5
  <2>2. Cardinality(oldest) = 0
    <3>1. oldest = {}
      BY <2>1
    <3> QED BY <3>1, FS_EmptySet
  <2> HIDE DEF oldest
  <2> QED BY <1>1, <1>4, <2>2
<1>6. CASE excess > 0
  <2> DEFINE place == [o \in oldest |-> Cardinality(older(o))]
  <2>1. ASSUME NEW x \in oldest, NEW y \in oldest, c.lru[x] < c.lru[y]
        PROVE  Cardinality(older(x)) # Cardinality(older(y))
    <3>1. older(x) \subseteq older(y) /\ x \in older(y) /\ x \notin older(x)
      BY <2>1 DEF CacheOK
    <3> HIDE DEF older
    <3> QED BY <1>3, <3>1, FS_Subset
  <2>2. \A x, y \in oldest : x # y => c.lru[x] < c.lru[y] \/ c.lru[y] < c.lru[x]
    BY DEF CacheOK
  <2> HIDE DEF older
  <2>3. \A x, y \in oldest : place[x] = place[y] => x = y
    BY <2>1, <2>2
  <2>4. place \in [oldest -> 0 .. excess - 1]
    BY <1>3, <1>4
  <2> HIDE DEF oldest, place
  <2>5. place \in Injection(oldest, 0 .. excess - 1)
    BY <2>3, <2>4, Fun_IsInj
  <2>6. IsFiniteSet(0 .. excess - 1) /\ Cardinality(0 .. excess - 1) = excess
    <3>1. 0 \in Int /\ excess - 1 \in Int /\ ~(0 > excess - 1) /\ (excess - 1) - 0 + 1 = excess
      BY <1>4, <1>6
    <3> QED BY <3>1, FS_Interval
  <2>7. Cardinality(oldest) <= excess
    BY <2>5, <2>6, FS_Injection
  <2> QED BY <1>1, <1>4, <2>7
<1> QED BY <1>4, <1>5, <1>6

\* An eviction does, and spares what is pinned.
LEMMA EvictKeeps ==
  ASSUME NEW c, NEW ids, CacheOK(c, ids), NEW pinned
  PROVE  /\ CacheOK(Cache!Evict(c, pinned), ids)
         /\ Cache!Resident(c) \cap pinned \subseteq Cache!Resident(Cache!Evict(c, pinned))
<1> DEFINE victims == Cache!Oldest(c, Cache!Resident(c) \ pinned)
<1>1. c.count - Cardinality(victims) \in 0 .. Word - 1
  BY OldestBound
<1>2. Cache!Evict(c, pinned) = Cache!Leave(c, victims, c.count - Cardinality(victims))
  BY CardinalityInCache DEF Cache!Evict
<1>3. victims \cap pinned = {}
  BY DEF Cache!Oldest
<1> HIDE DEF victims
<1>4. /\ CacheOK(Cache!Evict(c, pinned), ids \ victims)
      /\ Cache!Resident(Cache!Evict(c, pinned)) = Cache!Resident(c) \ victims
  BY <1>1, <1>2, LeaveKeeps
<1> QED BY <1>3, <1>4 DEF CacheOK

\* The object that was accessed last is in a place of its own.
LEMMA RecentQueue ==
  ASSUME NEW D, IsFiniteSet(D), NEW q \in [D -> Nat],
         \A x, y \in D : q[x] = q[y] => x = y, NEW o
  PROVE  LET r == Cache!Recent(q, o)
         IN  /\ DOMAIN r = D \union {o} /\ IsFiniteSet(D \union {o})
             /\ r \in [D \union {o} -> Nat]
             /\ \A x, y \in D \union {o} : r[x] = r[y] => x = y
<1> DEFINE others == Cache!Only(q, D \ {o})
           last   == Cardinality(D \ {o}) + 1
           r      == [x \in D \union {o} |-> IF x = o THEN last ELSE others[x]]
<1>1. /\ others \in [D \ {o} -> Nat]
      /\ \A x, y \in D \ {o} : others[x] = others[y] => x = y
      /\ \A x \in D \ {o} : others[x] <= Cardinality(D \ {o})
  BY OnlyQueue
<1>2. IsFiniteSet(D \ {o}) /\ last \in Nat
  BY FS_RemoveElement, FS_CardinalityType
<1>3. Cache!Recent(q, o) = r
  BY <1>1, CardinalityInCache DEF Cache!Recent
<1>4. IsFiniteSet(D \union {o})
  BY FS_AddElement
<1>5. Cardinality(D \ {o}) \in Nat
  BY <1>2, FS_CardinalityType
<1> HIDE DEF others
<1>6. \A x \in D \ {o} : others[x] < last
  BY <1>1, <1>5
<1> HIDE DEF last
<1>7. \A x, y \in D \union {o} : r[x] = r[y] => x = y
  BY <1>1, <1>2, <1>6
<1>8. r \in [D \union {o} -> Nat]
  BY <1>1, <1>2
<1> QED BY <1>3, <1>4, <1>7, <1>8

\* A node has fewer pivots than it has room for, new or loaded.
LEMMA LimitsOfMembers ==
  /\ DefaultMembers.max_pivots \in 0 .. NodeSize - 1
  /\ \A epsilon : Constructed(epsilon).max_pivots \in 0 .. NodeSize - 1
<1>1. \A epsilon : PivotsFor(epsilon) \in 0 .. NodeSize - 1
  BY SizeAssumption DEF PivotsFor
<1> QED BY <1>1 DEF DefaultMembers, Constructed

\* An access brings its object into memory, where it stays while it is pinned, with
\* all else that was pinned ...
LEMMA AccessKeeps ==
  ASSUME NEW c, NEW ids, CacheOK(c, ids), NEW o \in ids,
         NEW pinned \in SUBSET Cache!Resident(c)
  PROVE  LET used == Cache!Access(c, o, pinned)
         IN  CacheOK(used, ids) /\ pinned \union {o} \subseteq Cache!Resident(used)
<1> DEFINE d == [lru     |-> Cache!Recent(c.lru, o),
                 dirty   |-> c.dirty \union {o},
                 count   |-> IF Cache!InMemory(c, o) THEN c.count ELSE (c.count + 1) % Word,
                 members |-> IF Cache!InMemory(c, o) THEN c.members
                             ELSE Cache!Put(c.members, o, DefaultMembers)]
<1>1. Cache!Access(c, o, pinned) = Cache!Evict(d, pinned \union {o})
  BY DEF Cache!Access, Cache!Use
<1>2. /\ DOMAIN d.lru = Cache!Resident(c) \union {o}
      /\ d.lru \in [Cache!Resident(c) \union {o} -> Nat]
      /\ IsFiniteSet(Cache!Resident(c) \union {o})
      /\ \A x, y \in Cache!Resident(c) \union {o} : d.lru[x] = d.lru[y] => x = y
  <2> DEFINE D == Cache!Resident(c)
             q == Cache!Recent(c.lru, o)
  <2>1. /\ IsFiniteSet(D) /\ c.lru \in [D -> Nat]
        /\ \A x, y \in D : c.lru[x] = c.lru[y] => x = y
    BY DEF CacheOK
  <2> HIDE DEF D
  <2>2. /\ DOMAIN q = D \union {o} /\ IsFiniteSet(D \union {o})
        /\ q \in [D \union {o} -> Nat]
        /\ \A x, y \in D \union {o} : q[x] = q[y] => x = y
    BY <2>1, RecentQueue
  <2>3. d.lru = q
    OBVIOUS
  <2> HIDE DEF d, q
  <2> QED BY <2>2, <2>3 DEF D
<1>3. Cache!Resident(d) = Cache!Resident(c) \union {o}
  BY <1>2 DEF Cache!Resident
<1>4. d.dirty = Cache!Resident(c) \union {o}
  BY DEF CacheOK
<1>5. d.count \in 0 .. Word - 1
  <2>1. c.count \in 0 .. Word - 1 /\ Word \in Nat \ {0}
    BY CacheAssumption DEF CacheOK
  <2>2. (c.count + 1) % Word \in 0 .. Word - 1
    BY <2>1
  <2> QED BY <2>1, <2>2
<1>6. /\ DOMAIN d.members = Cache!Resident(c) \union {o}
      /\ \A x \in Cache!Resident(c) \union {o} : d.members[x].max_pivots \in 0 .. NodeSize - 1
  <2>1. CASE Cache!InMemory(c, o)
    BY <2>1 DEF CacheOK, Cache!InMemory
  <2>2. CASE ~Cache!InMemory(c, o)
    <3> DEFINE put == Cache!Put(c.members, o, DefaultMembers)
    <3>1. /\ DOMAIN put = DOMAIN c.members \union {o} /\ put[o] = DefaultMembers
          /\ \A x \in DOMAIN c.members : x # o => put[x] = c.members[x]
      BY DEF Cache!Put
    <3>2. d.members = put
      BY <2>2
    <3> HIDE DEF put, d
    <3> QED BY <3>1, <3>2, LimitsOfMembers DEF CacheOK
  <2> QED BY <2>1, <2>2
<1> HIDE DEF d
<1>7. CacheOK(d, ids)
  BY <1>2, <1>3, <1>4, <1>5, <1>6 DEF CacheOK
<1> QED BY <1>1, <1>3, <1>7, EvictKeeps

\* ... and may be evicted at once when the pin ends with the access.
LEMMA TouchKeeps ==
  ASSUME NEW c, NEW ids, CacheOK(c, ids), NEW o \in ids,
         NEW pinned \in SUBSET Cache!Resident(c)
  PROVE  LET touched == Cache!Touch(c, o, pinned)
         IN  CacheOK(touched, ids) /\ pinned \subseteq Cache!Resident(touched)
<1> DEFINE used == Cache!Access(c, o, pinned)
<1>1. CacheOK(used, ids) /\ pinned \subseteq Cache!Resident(used)
  BY AccessKeeps
<1>2. Cache!Touch(c, o, pinned) = Cache!Evict(used, pinned)
  BY DEF Cache!Touch
<1> HIDE DEF used
<1> QED BY <1>1, <1>2, EvictKeeps

\* A new object is put in memory.
LEMMA AllocateKeeps ==
  ASSUME NEW c, NEW ids, CacheOK(c, ids), NEW o, NEW epsilon,
         NEW pinned \in SUBSET Cache!Resident(c)
  PROVE  LET new == Cache!Allocate(c, o, Constructed(epsilon), pinned)
         IN  CacheOK(new, ids \union {o}) /\ pinned \subseteq Cache!Resident(new)
<1> DEFINE put == Cache!Put(c.members, o, Constructed(epsilon))
           d   == [lru |-> Cache!Recent(c.lru, o), dirty |-> c.dirty \union {o},
                   count |-> (c.count + 1) % Word, members |-> put]
<1>1. Cache!Allocate(c, o, Constructed(epsilon), pinned) = Cache!Evict(d, pinned)
  BY DEF Cache!Allocate
<1>2. /\ DOMAIN d.lru = Cache!Resident(c) \union {o}
      /\ d.lru \in [Cache!Resident(c) \union {o} -> Nat]
      /\ IsFiniteSet(Cache!Resident(c) \union {o})
      /\ \A x, y \in Cache!Resident(c) \union {o} : d.lru[x] = d.lru[y] => x = y
  <2> DEFINE D == Cache!Resident(c)
             q == Cache!Recent(c.lru, o)
  <2>1. /\ IsFiniteSet(D) /\ c.lru \in [D -> Nat]
        /\ \A x, y \in D : c.lru[x] = c.lru[y] => x = y
    BY DEF CacheOK
  <2> HIDE DEF D
  <2>2. /\ DOMAIN q = D \union {o} /\ IsFiniteSet(D \union {o})
        /\ q \in [D \union {o} -> Nat]
        /\ \A x, y \in D \union {o} : q[x] = q[y] => x = y
    BY <2>1, RecentQueue
  <2>3. d.lru = q
    OBVIOUS
  <2> HIDE DEF d, q
  <2> QED BY <2>2, <2>3 DEF D
<1>3. Cache!Resident(d) = Cache!Resident(c) \union {o}
  BY <1>2 DEF Cache!Resident
<1>4. d.dirty = Cache!Resident(c) \union {o}
  BY DEF CacheOK
<1>5. d.count \in 0 .. Word - 1
  <2>1. c.count \in 0 .. Word - 1 /\ Word \in Nat \ {0}
    BY CacheAssumption DEF CacheOK
  <2> QED BY <2>1
<1>6. /\ DOMAIN d.members = Cache!Resident(c) \union {o}
      /\ \A x \in Cache!Resident(c) \union {o} : d.members[x].max_pivots \in 0 .. NodeSize - 1
  <2>1. /\ DOMAIN put = DOMAIN c.members \union {o} /\ put[o] = Constructed(epsilon)
        /\ \A x \in DOMAIN c.members : x # o => put[x] = c.members[x]
    BY DEF Cache!Put
  <2>2. d.members = put
    OBVIOUS
  <2> HIDE DEF put, d
  <2> QED BY <2>1, <2>2, LimitsOfMembers DEF CacheOK
<1> HIDE DEF d
<1>7. CacheOK(d, ids \union {o})
  BY <1>2, <1>3, <1>4, <1>5, <1>6 DEF CacheOK
<1> QED BY <1>1, <1>3, <1>7, EvictKeeps

\* An object that is gone leaves the cache, and nothing else does.
LEMMA FreeKeeps ==
  ASSUME NEW c, NEW ids, CacheOK(c, ids), NEW o,
         NEW pinned \in SUBSET Cache!Resident(c), o \notin pinned
  PROVE  LET freed == Cache!Free(c, o)
         IN  CacheOK(freed, ids \ {o}) /\ pinned \subseteq Cache!Resident(freed)
<1>1. (c.count + Word - 1) % Word \in 0 .. Word - 1
  <2>1. c.count \in 0 .. Word - 1 /\ Word \in Nat \ {0}
    BY CacheAssumption DEF CacheOK
  <2> QED BY <2>1
<1>2. Cache!Free(c, o) = Cache!Leave(c, {o}, (c.count + Word - 1) % Word)
  BY DEF Cache!Free
<1> DEFINE freed == Cache!Free(c, o)
<1>3. CacheOK(freed, ids \ {o}) /\ Cache!Resident(freed) = Cache!Resident(c) \ {o}
  <2> DEFINE n == (c.count + Word - 1) % Word
  <2> HIDE DEF n
  <2>1. LET left == Cache!Leave(c, {o}, n)
        IN  /\ CacheOK(left, ids \ {o})
            /\ Cache!Resident(left) = Cache!Resident(c) \ {o}
    BY <1>1, LeaveKeeps DEF n
  <2> QED BY <1>2, <2>1 DEF n
<1> QED BY <1>3

\* More objects may exist than the cache knows of.
LEMMA CacheGrows ==
  ASSUME NEW c, NEW ids, CacheOK(c, ids), NEW more, ids \subseteq more
  PROVE  CacheOK(c, more)
  BY DEF CacheOK

-----------------------------------------------------------------------------
(* Pivots and splits. *)

\* An inner node has a first pivot, and get_pivot finds one for each key from it on.
LEMMA PivotFacts ==
  ASSUME NEW n, NEW ids, NEW now, NodeOK(n, ids, now), ~IsLeaf(n)
  PROVE  /\ FirstPivot(n) \in DOMAIN n.pivots
         /\ \A p \in DOMAIN n.pivots : p \in Int /\ FirstPivot(n) <= p
         /\ \A k \in Int : FirstPivot(n) <= k => GetPivot(n, k) \in DOMAIN n.pivots
<1>1. DOMAIN n.pivots \in SUBSET Int /\ IsFiniteSet(DOMAIN n.pivots) /\ DOMAIN n.pivots # {}
  BY KeysAssumption, FS_Subset DEF NodeOK, IsLeaf
<1>2. FirstPivot(n) \in DOMAIN n.pivots /\ \A p \in DOMAIN n.pivots : FirstPivot(n) <= p
  BY <1>1, FiniteMaxMin DEF FirstPivot
<1>3. ASSUME NEW k \in Int, FirstPivot(n) <= k PROVE GetPivot(n, k) \in DOMAIN n.pivots
  <2> DEFINE below == {p \in DOMAIN n.pivots : p <= k}
  <2>1. below \in SUBSET Int /\ IsFiniteSet(below) /\ below # {} /\ below \subseteq DOMAIN n.pivots
    BY <1>1, <1>2, <1>3, FS_Subset
  <2>2. GetPivot(n, k) = Max(below)
    BY DEF GetPivot
  <2> HIDE DEF below
  <2>3. Max(below) \in below
    BY <2>1, FiniteMaxMin
  <2> QED BY <2>1, <2>2, <2>3
<1> QED BY <1>1, <1>2, <1>3

\* Each message of an inner node is moved with one of its pivots.
LEMMA OwnerIn ==
  ASSUME NEW n, NEW ids, NEW now, NodeOK(n, ids, now), ~IsLeaf(n), NEW m \in n.elements
  PROVE  Owner(n, m) \in DOMAIN n.pivots
<1>1. m.key \in Int
  BY KeysAssumption DEF NodeOK, Buffer, Message
<1>2. FirstPivot(n) \in Int
  BY PivotFacts
<1>3. CASE m.key < FirstPivot(n)
  BY <1>3, PivotFacts DEF Owner
<1>4. CASE FirstPivot(n) <= m.key
  BY <1>1, <1>2, <1>4, PivotFacts DEF Owner
<1> QED BY <1>1, <1>2, <1>3, <1>4

\* The number of messages and pivots, of parts, and of things in a part.
LEMMA SplitSizes ==
  ASSUME NEW n, NEW ids, NEW now, NodeOK(n, ids, now), n.elements # {} \/ ~IsLeaf(n)
  PROVE  /\ Things(n) \in Nat \ {0}
         /\ NumNew(n) \in Nat /\ NumNew(n) >= 2
         /\ PerNew(n) \in Nat \ {0}
<1>1. IsFiniteSet(n.elements) /\ IsFiniteSet(DOMAIN n.pivots)
  BY KeysAssumption, FS_Subset DEF NodeOK, Buffer
<1>2. Things(n) \in Nat \ {0}
  <2>1. Cardinality(n.elements) \in Nat /\ Cardinality(DOMAIN n.pivots) \in Nat
    BY <1>1, FS_CardinalityType
  <2>2. Cardinality(n.elements) # 0 \/ Cardinality(DOMAIN n.pivots) # 0
    BY <1>1, FS_EmptySet DEF IsLeaf
  <2> QED BY <2>1, <2>2 DEF Things
<1> DEFINE share == (10 * NodeSize) \div 24
           all   == Things(n) \div share
<1>3. share \in Nat \ {0}
  BY SizeAssumption
<1> HIDE DEF share
<1>4. all \in Nat
  BY <1>2, <1>3
<1>5. NumNew(n) = Max({2, all})
  BY DEF NumNew, share
<1> HIDE DEF all
<1>6. NumNew(n) \in {2, all} /\ 2 <= NumNew(n)
  <2> DEFINE both == {2, all}
  <2>1. both \in SUBSET Int /\ IsFiniteSet(both) /\ both # {} /\ 2 \in both
    <3>1. both = ({} \union {2}) \union {all}
      OBVIOUS
    <3>2. IsFiniteSet(both)
      <4> HIDE DEF both
      <4> QED BY <3>1, FS_EmptySet, FS_AddElement
    <3> QED BY <1>4, <3>2
  <2>2. NumNew(n) = Max(both)
    BY <1>5
  <2> HIDE DEF both
  <2>3. NumNew(n) \in both /\ 2 <= NumNew(n)
    BY <2>1, <2>2, FiniteMaxMin
  <2> QED BY <2>3 DEF both
<1>7. NumNew(n) \in Nat /\ NumNew(n) >= 2
  BY <1>4, <1>6
<1>8. PerNew(n) \in Nat \ {0}
  <2> DEFINE t == Things(n)
             k == NumNew(n)
  <2>1. t \in Nat \ {0} /\ k \in Nat /\ k >= 2
    BY <1>2, <1>7
  <2> HIDE DEF t, k
  <2>2. (t + k - 1) \div k \in Nat \ {0}
    BY <2>1
  <2> QED BY <2>2 DEF PerNew, t, k
<1> QED BY <1>2, <1>7, <1>8

\* What a part is.
LEMMA PartFields ==
  ASSUME NEW n, NEW i
  PROVE  LET part == Part(n, i)
             mine == {p \in DOMAIN n.pivots : PivotPart(n, p) = i}
         IN  /\ part = [pivots |-> part.pivots, elements |-> part.elements,
                        epsilon |-> n.epsilon, node_level |-> (n.node_level + 1) % Word,
                        ready_for_adoption |-> FALSE]
             /\ IsLeaf(n) => /\ part.pivots = EmptyMap
                             /\ part.elements = {m \in n.elements : LeafPart(n, m) = i}
             /\ ~IsLeaf(n) => /\ part.pivots = [p \in mine |-> n.pivots[p]]
                              /\ part.elements = {m \in n.elements : Owner(n, m) \in mine}
<1>1. CASE IsLeaf(n)
  BY <1>1 DEF Part, NewNode
<1>2. CASE ~IsLeaf(n)
  BY <1>2 DEF Part, NewNode, Restrict
<1> QED BY <1>1, <1>2

\* The same, for a leaf and for an inner node.
LEMMA PartOfLeaf ==
  ASSUME NEW n, NEW i
  PROVE  IsLeaf(n) => /\ Part(n, i).pivots = EmptyMap
                      /\ Part(n, i).elements = {m \in n.elements : LeafPart(n, m) = i}
<1> DEFINE part == Part(n, i)
           mine == {p \in DOMAIN n.pivots : PivotPart(n, p) = i}
<1>1. /\ part = [pivots |-> part.pivots, elements |-> part.elements,
                 epsilon |-> n.epsilon, node_level |-> (n.node_level + 1) % Word,
                 ready_for_adoption |-> FALSE]
      /\ IsLeaf(n) => /\ part.pivots = EmptyMap
                      /\ part.elements = {m \in n.elements : LeafPart(n, m) = i}
      /\ ~IsLeaf(n) => /\ part.pivots = [p \in mine |-> n.pivots[p]]
                       /\ part.elements = {m \in n.elements : Owner(n, m) \in mine}
  BY PartFields
<1> HIDE DEF part, mine
<1>2. IsLeaf(n) => /\ part.pivots = EmptyMap
                   /\ part.elements = {m \in n.elements : LeafPart(n, m) = i}
  BY <1>1
<1> QED BY <1>2 DEF part

LEMMA PartOfInner ==
  ASSUME NEW n, NEW i, ~IsLeaf(n)
  PROVE  LET mine == {p \in DOMAIN n.pivots : PivotPart(n, p) = i}
         IN  /\ Part(n, i).pivots = [p \in mine |-> n.pivots[p]]
             /\ Part(n, i).elements = {m \in n.elements : Owner(n, m) \in mine}
<1> DEFINE part == Part(n, i)
           mine == {p \in DOMAIN n.pivots : PivotPart(n, p) = i}
           own  == [p \in mine |-> n.pivots[p]]
           some == {m \in n.elements : Owner(n, m) \in mine}
<1>1. /\ part = [pivots |-> part.pivots, elements |-> part.elements,
                 epsilon |-> n.epsilon, node_level |-> (n.node_level + 1) % Word,
                 ready_for_adoption |-> FALSE]
      /\ IsLeaf(n) => /\ part.pivots = EmptyMap
                      /\ part.elements = {m \in n.elements : LeafPart(n, m) = i}
      /\ ~IsLeaf(n) => part.pivots = own /\ part.elements = some
  BY PartFields
<1> HIDE DEF part, mine, own, some
<1>2. part.pivots = own /\ part.elements = some
  BY <1>1
<1> QED BY <1>2 DEF part, mine, own, some

\* A part is a node that its own key leads to, a leaf exactly when n is one.
LEMMA PartOK ==
  ASSUME NEW n, NEW ids, NEW now, NodeOK(n, ids, now), NEW i \in Parts(n)
  PROVE  /\ NodeOK(Part(n, i), ids, now)
         /\ IsLeaf(Part(n, i)) <=> IsLeaf(n)
         /\ \A p \in DOMAIN Part(n, i).pivots : /\ p \in DOMAIN n.pivots /\ PivotPart(n, p) = i
                                                /\ Part(n, i).pivots[p] = n.pivots[p]
         /\ PartKey(Part(n, i)) \in Keys
<1> DEFINE part == Part(n, i)
           mine == {p \in DOMAIN n.pivots : PivotPart(n, p) = i}
<1>1. /\ part = [pivots |-> part.pivots, elements |-> part.elements,
                 epsilon |-> n.epsilon, node_level |-> (n.node_level + 1) % Word,
                 ready_for_adoption |-> FALSE]
      /\ IsLeaf(n) => /\ part.pivots = EmptyMap
                      /\ part.elements = {m \in n.elements : LeafPart(n, m) = i}
      /\ ~IsLeaf(n) => /\ part.pivots = [p \in mine |-> n.pivots[p]]
                       /\ part.elements = {m \in n.elements : Owner(n, m) \in mine}
  BY PartFields
<1>2. Things(part) > 0
  BY DEF Parts
<1> HIDE DEF part, mine
<1>3. part = [pivots |-> part.pivots, elements |-> part.elements,
              epsilon |-> part.epsilon, node_level |-> part.node_level,
              ready_for_adoption |-> part.ready_for_adoption]
  BY <1>1
<1>4. part.elements \in Buffer(now) /\ part.elements \subseteq n.elements
  <2>1. part.elements \subseteq n.elements
    BY <1>1
  <2> QED BY <2>1, FS_Subset DEF NodeOK, Buffer
<1>5. part.elements # {} \/ DOMAIN part.pivots # {}
  <2>1. SUFFICES ASSUME part.elements = {}, DOMAIN part.pivots = {} PROVE Things(part) = 0
    BY <1>2
  <2> QED BY <2>1, FS_EmptySet DEF Things
<1>6. CASE IsLeaf(n)
  <2>1. IsLeaf(part) /\ part.pivots = EmptyMap /\ DOMAIN part.pivots = {}
    BY <1>1, <1>6 DEF EmptyMap, IsLeaf
  <2>2. Inserts(part.elements)
    BY <1>4, <1>6 DEF NodeOK, Inserts, For
  <2>3. NodeOK(part, ids, now)
    BY <1>3, <1>4, <2>1, <2>2 DEF NodeOK, EmptyMap
  <2>4. Min({m.key : m \in part.elements}) \in Keys
    <3> DEFINE keys == {m.key : m \in part.elements}
    <3>1. keys \in SUBSET Keys /\ keys # {}
      BY <1>4, <1>5, <2>1 DEF Buffer, Message
    <3> HIDE DEF keys
    <3>2. Min(keys) \in keys
      BY <3>1, KeysAssumption, FS_Subset, FiniteMaxMin
    <3> QED BY <3>1, <3>2 DEF keys
  <2> QED BY <1>6, <2>1, <2>3, <2>4 DEF PartKey, part
<1>7. CASE ~IsLeaf(n)
  <2>1. mine \subseteq DOMAIN n.pivots /\ \A p \in mine : PivotPart(n, p) = i
    BY DEF mine
  <2>2. part.pivots = [p \in mine |-> n.pivots[p]] /\ DOMAIN part.pivots = mine
    BY <1>1, <1>7
  <2>3. mine # {}
    BY <1>1, <1>5, <1>7, <2>2
  <2>4. ~IsLeaf(part)
    BY <2>2, <2>3 DEF IsLeaf
  <2>5. NodeOK(part, ids, now)
    BY <1>3, <1>4, <2>1, <2>2, <2>4 DEF NodeOK
  <2>6. FirstPivot(part) \in Keys
    BY <2>4, <2>5, PivotFacts DEF NodeOK
  <2> QED BY <1>7, <2>1, <2>2, <2>4, <2>5, <2>6 DEF PartKey, part
<1> QED BY <1>6, <1>7

\* The first part is never skipped.
LEMMA FirstPart ==
  ASSUME NEW n, NEW ids, NEW now, NodeOK(n, ids, now), n.elements # {} \/ ~IsLeaf(n)
  PROVE  0 \in Parts(n)
<1>1. PerNew(n) \in Nat \ {0} /\ NumNew(n) \in Nat /\ NumNew(n) >= 2
  BY SplitSizes
<1>2. 0 \div PerNew(n) = 0
  BY <1>1
<1> DEFINE part == Part(n, 0)
           mine == {p \in DOMAIN n.pivots : PivotPart(n, p) = 0}
<1>3. /\ IsLeaf(n) => /\ part.pivots = EmptyMap
                      /\ part.elements = {m \in n.elements : LeafPart(n, m) = 0}
      /\ ~IsLeaf(n) => /\ part.pivots = [p \in mine |-> n.pivots[p]]
                       /\ part.elements = {m \in n.elements : Owner(n, m) \in mine}
  BY PartFields
<1>4. IsFiniteSet(n.elements) /\ IsFiniteSet(DOMAIN n.pivots)
  BY KeysAssumption, FS_Subset DEF NodeOK, Buffer
<1>5. CASE IsLeaf(n)
  <2> DEFINE keys == {m.key : m \in n.elements}
  <2>1. keys \in SUBSET Int /\ IsFiniteSet(keys) /\ keys # {}
    <3>1. keys \subseteq Keys
      BY DEF NodeOK, Buffer, Message
    <3>2. keys # {}
      BY <1>5
    <3> HIDE DEF keys
    <3> QED BY <3>1, <3>2, KeysAssumption, FS_Subset
  <2>2. PICK m \in n.elements : \A e \in n.elements : m.key <= e.key
    <3>1. Min(keys) \in keys /\ \A k \in keys : Min(keys) <= k
      <4> HIDE DEF keys
      <4> QED BY <2>1, FiniteMaxMin
    <3> QED BY <3>1
  <2>3. {e \in n.elements : MsgLess(e, m)} = {}
    <3> SUFFICES ASSUME NEW e \in n.elements, MsgLess(e, m) PROVE FALSE
      OBVIOUS
    <3>1. e.key \in Int /\ m.key \in Int /\ e.ts \in Int /\ m.key <= e.key
      BY <2>1, <2>2 DEF NodeOK, Buffer, Message
    <3>2. e.key = m.key
      BY <3>1 DEF MsgLess
    <3>3. e = m
      BY <1>5, <3>2 DEF NodeOK, Inserts, For
    <3> QED BY <3>1, <3>3 DEF MsgLess
  <2>4. LeafPart(n, m) = 0
    BY <1>2, <2>3, FS_EmptySet DEF LeafPart
  <2>5. part.elements # {} /\ part.elements \subseteq n.elements /\ DOMAIN part.pivots = {}
    BY <1>3, <1>5, <2>4 DEF EmptyMap
  <2> HIDE DEF part
  <2>6. Cardinality(part.elements) \in Nat \ {0} /\ Cardinality(DOMAIN part.pivots) = 0
    BY <1>4, <2>5, FS_Subset, FS_CardinalityType, FS_EmptySet
  <2>7. Things(part) > 0
    BY <2>6 DEF Things
  <2> QED BY <1>1, <2>7 DEF Parts, part
<1>6. CASE ~IsLeaf(n)
  <2> DEFINE p == FirstPivot(n)
  <2>1. p \in DOMAIN n.pivots /\ \A q \in DOMAIN n.pivots : q \in Int /\ p <= q
    BY <1>6, PivotFacts
  <2>2. \A m \in n.elements : Owner(n, m) \in DOMAIN n.pivots
    BY <1>6, OwnerIn
  <2> HIDE DEF p
  <2>3. /\ {q \in DOMAIN n.pivots : q < p} = {}
        /\ {m \in n.elements : Owner(n, m) < p} = {}
    BY <2>1, <2>2
  <2>4. PivotPart(n, p) = 0
    <3>1. PivotPart(n, p) = (Cardinality({}) + Cardinality({})) \div PerNew(n)
      BY <2>3 DEF PivotPart
    <3> QED BY <1>2, <3>1, FS_EmptySet
  <2>5. p \in DOMAIN part.pivots /\ part.elements \subseteq n.elements
        /\ DOMAIN part.pivots \subseteq DOMAIN n.pivots
    BY <1>3, <1>6, <2>1, <2>4
  <2> HIDE DEF part
  <2>6. Cardinality(part.elements) \in Nat /\ Cardinality(DOMAIN part.pivots) \in Nat \ {0}
    <3>1. IsFiniteSet(part.elements) /\ IsFiniteSet(DOMAIN part.pivots)
      BY <1>4, <2>5, FS_Subset
    <3> QED BY <2>5, <3>1, FS_CardinalityType, FS_EmptySet
  <2>7. Things(part) > 0
    BY <2>6 DEF Things
  <2> QED BY <1>1, <2>7 DEF Parts, part
<1> QED BY <1>5, <1>6

\* The map that a split returns: keys lead to the parts, each part has one.
LEMMA SplitResultOK ==
  ASSUME NEW n, NEW ids, NEW now, NodeOK(n, ids, now), n.elements # {} \/ ~IsLeaf(n),
         next_id \in Nat
  PROVE  LET result == SplitResult(n)
             new    == {IdOf(i) : i \in Parts(n)}
         IN  /\ result # EmptyMap /\ DOMAIN result \subseteq Keys
             /\ result \in [DOMAIN result -> new]
             /\ \A p, q \in DOMAIN result : result[p] = result[q] => p = q
<1> DEFINE result  == SplitResult(n)
           new     == {IdOf(i) : i \in Parts(n)}
           key(i)  == PartKey(Part(n, i))
           keys    == {key(i) : i \in Parts(n)}
           part(k) == CHOOSE i \in Parts(n) : key(i) = k
<1>1. result = [k \in keys |-> IdOf(part(k))] /\ DOMAIN result = keys
  BY DEF SplitResult
<1>2. keys # {} /\ keys \subseteq Keys
  BY FirstPart, PartOK
<1>3. \A k \in keys : part(k) \in Parts(n) /\ key(part(k)) = k
  OBVIOUS
<1>4. \A i, j \in Parts(n) : IdOf(i) = IdOf(j) => i = j
  <2>1. Parts(n) \subseteq Int
    BY SplitSizes DEF Parts
  <2> QED BY <2>1 DEF IdOf
<1>5. DOMAIN EmptyMap = {}
  BY DEF EmptyMap
<1> HIDE DEF result, part, key
<1>6. \A k \in keys : result[k] \in new
  BY <1>1, <1>3
<1>7. \A p, q \in keys : result[p] = result[q] => p = q
  BY <1>1, <1>3, <1>4
<1>8. result \in [keys -> new]
  BY <1>1, <1>6
<1> QED BY <1>1, <1>2, <1>5, <1>7, <1>8 DEF result

-----------------------------------------------------------------------------
(* What a split does to the cache, as two folds with invariants.  Their context  *)
(* is the node, the nodes there were, the first new id and what is pinned.       *)

FillOne(s, i, c) ==
    LET new    == Cache!Allocate(c, s.first + i, Constructed(s.n.epsilon), s.pinned)
        filled == Cache!Touch(new, s.first + i, s.pinned)
    IN  IF i = 0 \/ i - 1 \in Parts(s.n) THEN filled ELSE Cache!Free(filled, s.first + (i - 1))

SizeOne(s, i, c) == Cache!Touch(c, s.first + i, s.pinned)

\* The nodes there are when the part i is filled: it and those that were not skipped.
FilledTo(s, i) == s.ids \union {s.first + j : j \in {k \in 0 .. i : k \in Parts(s.n) \/ k = i}}
Filled(s)      == s.ids \union {s.first + j : j \in Parts(s.n)}

FillInv(s, taken, c) ==
    \A i \in Int : taken = 0 .. i =>
        CacheOK(c, FilledTo(s, i)) /\ s.pinned \subseteq Cache!Resident(c)
SizeInv(s, taken, c) == CacheOK(c, Filled(s)) /\ s.pinned \subseteq Cache!Resident(c)

Filling == INSTANCE FoldRule WITH op <- FillOne, choose <- Max, Inv <- FillInv
Sizing  == INSTANCE FoldRule WITH op <- SizeOne, choose <- Max, Inv <- SizeInv

\* One round of the loop of a split: a part is allocated and filled.
LEMMA FillKeeps ==
  ASSUME NEW s, s.first \in Nat, s.ids \subseteq 1 .. s.first - 1, s.pinned \subseteq s.ids,
         NEW i \in Nat, NEW c, CacheOK(c, FilledTo(s, i - 1)), s.pinned \subseteq Cache!Resident(c)
  PROVE  LET filled == FillOne(s, i, c)
         IN  CacheOK(filled, FilledTo(s, i)) /\ s.pinned \subseteq Cache!Resident(filled)
<1> DEFINE o      == s.first + i
           before == FilledTo(s, i - 1)
           new    == Cache!Allocate(c, o, Constructed(s.n.epsilon), s.pinned)
           filled == Cache!Touch(new, o, s.pinned)
           last   == s.first + (i - 1)
<1>1. CacheOK(new, before \union {o}) /\ s.pinned \subseteq Cache!Resident(new)
  <2> HIDE DEF o, before
  <2> QED BY AllocateKeeps DEF before
<1>2. CacheOK(filled, before \union {o}) /\ s.pinned \subseteq Cache!Resident(filled)
  <2> HIDE DEF o, before, new
  <2> QED BY <1>1, TouchKeeps
<1>3. ASSUME i = 0 \/ i - 1 \in Parts(s.n) PROVE before \union {o} \subseteq FilledTo(s, i)
  BY <1>3 DEF FilledTo
<1>4. (before \union {o}) \ {last} \subseteq FilledTo(s, i)
  BY DEF FilledTo
<1> HIDE DEF before, new, filled, o
<1>5. CASE i = 0 \/ i - 1 \in Parts(s.n)
  <2>1. FillOne(s, i, c) = filled
    BY <1>5 DEF FillOne, filled, new, o
  <2> QED BY <1>2, <1>3, <1>5, <2>1, CacheGrows
<1>6. CASE ~(i = 0 \/ i - 1 \in Parts(s.n))
  <2>1. FillOne(s, i, c) = Cache!Free(filled, last)
    BY <1>6 DEF FillOne, filled, new, o
  <2>2. last \notin s.pinned
    <3>1. last \notin 1 .. s.first - 1
      BY <1>6
    <3> QED BY <3>1
  <2> HIDE DEF last
  <2>3. /\ CacheOK(Cache!Free(filled, last), (before \union {o}) \ {last})
        /\ s.pinned \subseteq Cache!Resident(Cache!Free(filled, last))
    BY <1>2, <2>2, FreeKeeps
  <2> QED BY <1>4, <2>1, <2>3, CacheGrows DEF last
<1> QED BY <1>5, <1>6

\* The rounds are finitely many ...
LEMMA FiniteUpTo ==
  ASSUME NEW k \in Int
  PROVE  IsFiniteSet(0 .. k)
<1>1. 0 \in Int
  OBVIOUS
<1> QED BY <1>1, FS_Interval

\* ... and taken one by one.
LEMMA MaxOfSome ==
  ASSUME NEW S \in SUBSET Int, IsFiniteSet(S)
  PROVE  \A T \in SUBSET S : T # {} => Max(T) \in T
<1> SUFFICES ASSUME NEW T \in SUBSET S, T # {} PROVE Max(T) \in T
  OBVIOUS
<1>1. T \in SUBSET Int /\ IsFiniteSet(T)
  BY FS_Subset
<1> QED BY <1>1, FiniteMaxMin

\* All accesses of a split keep the cache right and what is pinned in it.
LEMMA SplitCacheKeeps ==
  ASSUME NEW n, NEW ids, NEW now, NodeOK(n, ids, now), n.elements # {} \/ ~IsLeaf(n),
         next_id \in Nat, ids \subseteq 1 .. next_id - 1,
         NEW c, CacheOK(c, ids), NEW pinned \in SUBSET Cache!Resident(c)
  PROVE  LET split == SplitCache(n, c, pinned)
         IN  /\ CacheOK(split, ids \union {IdOf(i) : i \in Parts(n)})
             /\ pinned \subseteq Cache!Resident(split)
<1> DEFINE s      == [n |-> n, ids |-> ids, first |-> next_id, pinned |-> pinned]
           places == 0 .. Max(Parts(n))
           filled == Filling!Fold(s, c, places)
           sized  == Sizing!Fold(s, filled, Parts(n))
<1>1. SplitCache(n, c, pinned) = sized
  BY DEF SplitCache, InTurn, FillPart, IdOf, FillOne, SizeOne, Filling!Fold, Sizing!Fold,
         MapThenFoldSet, Filling!MapThenFoldSet, Sizing!MapThenFoldSet
<1>2. Parts(n) \in SUBSET Nat /\ IsFiniteSet(Parts(n)) /\ Parts(n) # {}
  <2> DEFINE last == NumNew(n) - 1
  <2>1. Parts(n) \subseteq 0 .. last /\ last \in Int
    BY SplitSizes DEF Parts
  <2>2. 0 .. last \subseteq Nat
    BY <2>1
  <2> HIDE DEF last
  <2>3. IsFiniteSet(Parts(n))
    BY <2>1, FiniteUpTo, FS_Subset
  <2>4. Parts(n) # {}
    BY FirstPart
  <2> QED BY <2>1, <2>2, <2>3, <2>4
<1>3. Max(Parts(n)) \in Parts(n) /\ Max(Parts(n)) \in Nat
      /\ \A i \in Parts(n) : i <= Max(Parts(n))
  BY <1>2, FiniteMaxMin
<1>4. places \in SUBSET Int /\ IsFiniteSet(places)
  BY <1>3, FiniteUpTo
<1>5. s.first \in Nat /\ s.ids \subseteq 1 .. s.first - 1 /\ s.pinned \subseteq s.ids
  BY DEF CacheOK
<1>6. FillInv(s, places, filled)
  <2>1. \A T \in SUBSET places : T # {} => Max(T) \in T
    BY <1>4, MaxOfSome
  <2>2. FillInv(s, {}, c)
    <3> SUFFICES ASSUME NEW i \in Int, {} = 0 .. i
                 PROVE  CacheOK(c, FilledTo(s, i)) /\ s.pinned \subseteq Cache!Resident(c)
      BY DEF FillInv
    <3>1. ids \subseteq FilledTo(s, i)
      BY DEF FilledTo
    <3> QED BY <3>1, CacheGrows
  <2>3. ASSUME NEW T \in SUBSET places, NEW acc, T # {}, FillInv(s, T \ {Max(T)}, acc)
        PROVE  FillInv(s, T, FillOne(s, Max(T), acc))
    <3> SUFFICES ASSUME NEW i \in Int, T = 0 .. i
                 PROVE  LET new == FillOne(s, Max(T), acc)
                        IN  CacheOK(new, FilledTo(s, i)) /\ s.pinned \subseteq Cache!Resident(new)
      BY DEF FillInv
    <3>1. i \in Nat /\ i \in T
      BY <2>3
    <3>2. Max(T) = i
      <4>1. Max(T) \in T /\ \A x \in T : x <= Max(T)
        BY <1>4, <2>3, FS_Subset, FiniteMaxMin
      <4> QED BY <3>1, <4>1
    <3>3. T \ {Max(T)} = 0 .. i - 1
      BY <3>1, <3>2
    <3>4. CacheOK(acc, FilledTo(s, i - 1)) /\ s.pinned \subseteq Cache!Resident(acc)
      BY <2>3, <3>1, <3>3 DEF FillInv
    <3> HIDE DEF s
    <3> QED BY <1>5, <3>1, <3>2, <3>4, FillKeeps
  <2>4. Filling!IsFiniteSet(places)
    BY <1>4 DEF IsFiniteSet, Filling!IsFiniteSet
  <2> HIDE DEF s, places
  <2> QED BY <2>1, <2>2, <2>3, <2>4, Filling!FoldInvariant
<1>7. CacheOK(filled, Filled(s)) /\ s.pinned \subseteq Cache!Resident(filled)
  <2>1. CacheOK(filled, FilledTo(s, Max(Parts(n)))) /\ s.pinned \subseteq Cache!Resident(filled)
    <3> HIDE DEF s, filled
    <3> QED BY <1>3, <1>6 DEF FillInv
  <2>2. FilledTo(s, Max(Parts(n))) \subseteq Filled(s)
    BY <1>3 DEF FilledTo, Filled
  <2> HIDE DEF s, filled
  <2> QED BY <2>1, <2>2, CacheGrows
<1> HIDE DEF filled
<1>8. SizeInv(s, Parts(n), sized)
  <2>1. \A T \in SUBSET Parts(n) : T # {} => Max(T) \in T
    BY <1>2, MaxOfSome
  <2>2. SizeInv(s, {}, filled)
    BY <1>7 DEF SizeInv
  <2>3. ASSUME NEW T \in SUBSET Parts(n), NEW acc, T # {}, SizeInv(s, T \ {Max(T)}, acc)
        PROVE  SizeInv(s, T, SizeOne(s, Max(T), acc))
    <3> DEFINE o == s.first + Max(T)
    <3>1. o \in Filled(s)
      BY <2>1, <2>3 DEF Filled
    <3>2. CacheOK(acc, Filled(s)) /\ s.pinned \subseteq Cache!Resident(acc)
      BY <2>3 DEF SizeInv
    <3> HIDE DEF s, o
    <3>3. /\ CacheOK(Cache!Touch(acc, o, s.pinned), Filled(s))
          /\ s.pinned \subseteq Cache!Resident(Cache!Touch(acc, o, s.pinned))
      BY <3>1, <3>2, TouchKeeps
    <3> QED BY <3>3 DEF SizeInv, SizeOne, o
  <2>4. Sizing!IsFiniteSet(Parts(n))
    BY <1>2 DEF IsFiniteSet, Sizing!IsFiniteSet
  <2> HIDE DEF s
  <2> QED BY <2>1, <2>2, <2>3, <2>4, Sizing!FoldInvariant
<1>9. Filled(s) = ids \union {IdOf(i) : i \in Parts(n)} /\ s.pinned = pinned
  BY DEF Filled, IdOf
<1> QED BY <1>1, <1>8, <1>9 DEF SizeInv
=============================================================================
