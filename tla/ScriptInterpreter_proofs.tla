---------------------- MODULE ScriptInterpreter_proofs ----------------------
(***************************************************************************)
(* For any spend, any scripts and any flags: OP_CHECKMULTISIG finds a      *)
(* choice of keys whenever there is one; an instruction takes effect       *)
(* exactly when the brackets of the script say so; every part of an        *)
(* Interpreter keeps its type, and verify finds its copy of the stack; a   *)
(* standard output is spent exactly by the signatures that it asks for.    *)
(***************************************************************************)
EXTENDS ScriptInterpreter, FiniteSetTheorems, TLAPS

-----------------------------------------------------------------------------
\* Matched, by its last signature and its last key

\* No signature needs no key: the loop is left with success when nSigsCount
\* has come down to zero.
LEMMA MatchedNone == \A k \in Nat : Matched(0, k)
<1> SUFFICES ASSUME NEW k \in Nat PROVE Matched(0, k)
  OBVIOUS
<1> DEFINE f == [i \in 1 .. 0 |-> 1]
<1>1. 1 .. 0 = {}
  OBVIOUS
<1>2. f \in [1 .. 0 -> 1 .. k]
  BY <1>1
<1> QED
  BY <1>1, <1>2 DEF Matched

\* More signatures than keys cannot all have one of their own: the loop is
\* left without success when nSigsCount > nKeysCount.
LEMMA MatchedFew ==
    ASSUME NEW s \in Nat, NEW k \in Nat, s > k
    PROVE  ~Matched(s, k)
<1> SUFFICES ASSUME NEW f \in [1 .. s -> 1 .. k],
                    \A i, j \in 1 .. s : i < j => f[i] < f[j]
             PROVE  FALSE
  BY DEF Matched
<1>1. /\ IsFiniteSet(1 .. s) /\ Cardinality(1 .. s) = s
      /\ IsFiniteSet(1 .. k) /\ Cardinality(1 .. k) = k
  BY FS_Interval
<1>2. PICK i, j \in 1 .. s : i # j /\ f[i] = f[j]
  BY <1>1, FS_PigeonHole
<1>3. i < j \/ j < i
  BY <1>2
<1>4. f[i] \in Int /\ f[j] \in Int
  OBVIOUS
<1> QED
  BY <1>2, <1>3, <1>4

\* A key that fits the last signature may be given to it: the turn of the loop
\* that finds fOk takes both.
LEMMA MatchedTake ==
    ASSUME NEW s \in Nat \ {0}, NEW k \in Nat \ {0},
           Verifies(multi.sigs[s], multi.keys[k])
    PROVE  Matched(s, k) <=> Matched(s - 1, k - 1)
<1>1. ASSUME Matched(s, k) PROVE Matched(s - 1, k - 1)
  <2>1. PICK f \in [1 .. s -> 1 .. k] :
            /\ \A i, j \in 1 .. s : i < j => f[i] < f[j]
            /\ \A i \in 1 .. s : Verifies(multi.sigs[i], multi.keys[f[i]])
    BY <1>1 DEF Matched
  <2> DEFINE g == [i \in 1 .. (s - 1) |-> f[i]]
  <2>2. ASSUME NEW i \in 1 .. (s - 1) PROVE f[i] \in 1 .. (k - 1)
    <3>1. i \in 1 .. s /\ s \in 1 .. s /\ i < s
      OBVIOUS
    <3>2. f[i] \in 1 .. k /\ f[s] \in 1 .. k /\ f[i] < f[s]
      BY <2>1, <3>1
    <3> QED
      BY <3>2
  <2>3. g \in [1 .. (s - 1) -> 1 .. (k - 1)]
    BY <2>2
  <2>4. \A i \in 1 .. (s - 1) : i \in 1 .. s /\ g[i] = f[i]
    OBVIOUS
  <2>5. \A i, j \in 1 .. (s - 1) : i < j => g[i] < g[j]
    BY <2>1, <2>4
  <2>6. \A i \in 1 .. (s - 1) : Verifies(multi.sigs[i], multi.keys[g[i]])
    BY <2>1, <2>4
  <2> QED
    BY <2>3, <2>5, <2>6 DEF Matched
<1>2. ASSUME Matched(s - 1, k - 1) PROVE Matched(s, k)
  <2>1. PICK g \in [1 .. (s - 1) -> 1 .. (k - 1)] :
            /\ \A i, j \in 1 .. (s - 1) : i < j => g[i] < g[j]
            /\ \A i \in 1 .. (s - 1) : Verifies(multi.sigs[i], multi.keys[g[i]])
    BY <1>2 DEF Matched
  <2> DEFINE f == [i \in 1 .. s |-> IF i = s THEN k ELSE g[i]]
  <2>2. \A i \in 1 .. s : i # s => i \in 1 .. (s - 1)
    OBVIOUS
  <2>3. \A i \in 1 .. (s - 1) : g[i] \in 1 .. (k - 1)
    OBVIOUS
  <2>4. /\ s \in 1 .. s /\ f[s] = k
        /\ \A i \in 1 .. s : i # s => f[i] = g[i] /\ f[i] \in 1 .. (k - 1)
    BY <2>2, <2>3
  <2>5. f \in [1 .. s -> 1 .. k]
    BY <2>4
  <2>6. ASSUME NEW i \in 1 .. s, NEW j \in 1 .. s, i < j PROVE f[i] < f[j]
    <3>1. CASE j = s
      BY <2>4, <2>6, <3>1
    <3>2. CASE j # s
      <4>1. i # s /\ i \in 1 .. (s - 1) /\ j \in 1 .. (s - 1)
        BY <2>6, <3>2
      <4> QED
        BY <2>1, <2>4, <2>6, <3>2, <4>1
    <3> QED
      BY <3>1, <3>2
  <2>7. ASSUME NEW i \in 1 .. s
        PROVE  Verifies(multi.sigs[i], multi.keys[f[i]])
    <3>1. CASE i = s
      BY <2>4, <3>1
    <3>2. CASE i # s
      BY <2>1, <2>2, <2>4, <3>2
    <3> QED
      BY <3>1, <3>2
  <2> HIDE DEF f
  <2> QED
    BY <2>5, <2>6, <2>7 DEF Matched
<1> QED
  BY <1>1, <1>2

\* A key that does not fit the last signature is of no use to the others, for
\* the order would not be kept: the loop drops it.
LEMMA MatchedSkip ==
    ASSUME NEW s \in Nat \ {0}, NEW k \in Nat \ {0},
           ~Verifies(multi.sigs[s], multi.keys[k])
    PROVE  Matched(s, k) <=> Matched(s, k - 1)
<1>1. ASSUME Matched(s, k) PROVE Matched(s, k - 1)
  <2>1. PICK f \in [1 .. s -> 1 .. k] :
            /\ \A i, j \in 1 .. s : i < j => f[i] < f[j]
            /\ \A i \in 1 .. s : Verifies(multi.sigs[i], multi.keys[f[i]])
    BY <1>1 DEF Matched
  <2>2. s \in 1 .. s /\ f[s] \in 1 .. k /\ f[s] # k
    BY <2>1
  <2>3. ASSUME NEW i \in 1 .. s PROVE f[i] \in 1 .. (k - 1)
    <3>1. f[i] \in 1 .. k /\ (i = s \/ i < s)
      OBVIOUS
    <3>2. i < s => f[i] < f[s]
      BY <2>1, <2>2
    <3> QED
      BY <2>2, <3>1, <3>2
  <2>4. f \in [1 .. s -> 1 .. (k - 1)]
    BY <2>3
  <2> QED
    BY <2>1, <2>4 DEF Matched
<1>2. ASSUME Matched(s, k - 1) PROVE Matched(s, k)
  <2>1. PICK f \in [1 .. s -> 1 .. (k - 1)] :
            /\ \A i, j \in 1 .. s : i < j => f[i] < f[j]
            /\ \A i \in 1 .. s : Verifies(multi.sigs[i], multi.keys[f[i]])
    BY <1>2 DEF Matched
  <2>2. f \in [1 .. s -> 1 .. k]
    OBVIOUS
  <2> QED
    BY <2>1, <2>2 DEF Matched
<1> QED
  BY <1>1, <1>2

-----------------------------------------------------------------------------
\* The loop

MultiFields == {"at", "verify", "sigs", "keys", "nSigs", "nKeys",
                "nSigsCount", "nKeysCount", "fSuccess"}

\* As long as the loop succeeds, the signatures and keys it has left have a
\* solution exactly when all of them had one.
MultisigInv ==
    multi.at = "trying" =>
        /\ DOMAIN multi = MultiFields
        /\ multi.nSigs \in Nat /\ multi.nKeys \in Nat
        /\ multi.nSigsCount \in 0 .. multi.nSigs
        /\ multi.nKeysCount \in 0 .. multi.nKeys
        /\ multi.fSuccess \in BOOLEAN
        /\ multi.fSuccess => /\ multi.nSigsCount <= multi.nKeysCount
                             /\ Matched(multi.nSigs, multi.nKeys)
                                <=> Matched(multi.nSigsCount, multi.nKeysCount)
        /\ ~multi.fSuccess => ~Matched(multi.nSigs, multi.nKeys)

\* A step that leaves the loop, or has nothing to do with it.
Apart == multi' = NoMulti \/ UNCHANGED <<multi, phase, pbegincodehash>>

\* A step apart keeps the invariant: what a signature signs is the same.
LEMMA ApartKeeps == MultisigInv /\ Apart => MultisigInv'
<1> SUFFICES ASSUME MultisigInv, Apart, (multi.at)' = "trying"
             PROVE  MultisigInv'
  BY DEF MultisigInv
<1>1. UNCHANGED <<multi, phase, pbegincodehash>>
  BY DEF Apart, NoMulti
<1>2. \A sig, key : Verifies(sig, key)' <=> Verifies(sig, key)
  BY <1>1 DEF Verifies
<1>3. \A s, k : Matched(s, k)' <=> Matched(s, k)
  BY <1>1, <1>2 DEF Matched
<1> QED
  BY <1>1, <1>3 DEF MultisigInv

\* Every way in which a script is loaded or given up leaves the loop.
LEMMA LoadLeaves ==
    /\ \A p, code, st : Load(p, code, st) => multi' = NoMulti
    /\ \A v : Return(v) => multi' = NoMulti
    /\ Reject => multi' = NoMulti
    /\ \A h, copy : Conclude(h, copy) => multi' = NoMulti
  BY DEF Load, Return, Reject, Conclude

\* verifyWitnessProgram loads a script, gives up or comes to an end.
LEMMA ProgramLeaves ==
    ASSUME NEW s, NEW copy, WitnessProgram(s, copy)
    PROVE  multi' = NoMulti
<1> DEFINE small == Size(s[2].item) \in {20, 32}
<1>1. CASE s[1].op = "NUM" /\ "DISCOURAGE_WITNESS_PROGRAM" \in flags
  BY <1>1, LoadLeaves DEF WitnessProgram
<1>2. CASE s[1].op = "NUM" /\ "DISCOURAGE_WITNESS_PROGRAM" \notin flags
  BY <1>2, LoadLeaves DEF WitnessProgram
<1>3. CASE s[1].op # "NUM" /\ ~small
  BY <1>3, LoadLeaves DEF WitnessProgram
<1>4. CASE s[1].op # "NUM" /\ small
  BY <1>4, LoadLeaves DEF WitnessProgram
<1> QED
  BY <1>1, <1>2, <1>3, <1>4

\* verify, and every instruction but CHECKMULTISIG, is apart from the loop.
LEMMA OthersApart ==
    ASSUME \/ \E F \in spend.under : Verify(F)
           \/ StepUnreadable \/ StepSkipped \/ StepPush \/ StepBad
           \/ StepIf \/ StepElse \/ StepEndif \/ StepRewrite
           \/ StepDepth \/ StepPick \/ StepToAlt \/ StepFromAlt
           \/ StepTimelock \/ StepNop \/ StepCodeSeparator \/ StepCheckSig
           \/ EndMultisig \/ End
    PROVE  Apart
<1> USE LoadLeaves DEF Apart
<1>1. ASSUME NEW F \in spend.under, Verify(F) PROVE Apart
  BY <1>1 DEF Verify, machine
<1>2. CASE StepUnreadable \/ StepBad
  BY <1>2 DEF StepUnreadable, StepBad
<1>3. CASE StepSkipped \/ StepElse \/ StepEndif \/ StepIf
  BY <1>3, Zenon DEF StepSkipped, StepElse, StepEndif, StepIf, Advance
<1>4. CASE StepPush \/ StepRewrite \/ StepDepth \/ StepPick
  BY <1>4, Zenon DEF StepPush, StepRewrite, StepDepth, StepPick, Executed, Advance
<1>5. CASE StepToAlt \/ StepFromAlt \/ StepTimelock \/ StepNop
  BY <1>5 DEF StepToAlt, StepFromAlt, StepTimelock, StepNop, Executed, Advance
<1>6. CASE StepCodeSeparator
  BY <1>6 DEF StepCodeSeparator, Runs, Reading
<1>7. CASE StepCheckSig
  BY <1>7 DEF StepCheckSig, Executed, Advance
<1>8. CASE EndMultisig
  BY <1>8 DEF EndMultisig
<1>9. CASE End
  BY <1>9, ProgramLeaves DEF End, EndBad, EndScriptSig, EndScriptPubkey,
     EndRedeemScript, EndWitness
<1> QED
  BY <1>1, <1>2, <1>3, <1>4, <1>5, <1>6, <1>7, <1>8, <1>9

\* The loop begins with all signatures and all keys, no more of the former.
LEMMA BeginKeeps == StepMultisig => MultisigInv'
<1> SUFFICES ASSUME StepMultisig PROVE MultisigInv'
  OBVIOUS
<1> DEFINE n == Len(stack)
           nKeys == stack[n].n
           m == n - 1 - nKeys
           nSigs == stack[m].n
<1>1. CASE Reject
  BY <1>1, LoadLeaves DEF MultisigInv, NoMulti
<1>2. CASE ~Reject
  <2>1. /\ nKeys \in 0 .. 20 /\ nSigs \in 0 .. nKeys
        /\ multi' = [at |-> "trying",
                     verify |-> Current.op = "CHECKMULTISIGVERIFY",
                     keys |-> [k \in 1 .. nKeys |-> stack[m + k]],
                     sigs |-> [k \in 1 .. nSigs |-> stack[m - 1 - nSigs + k]],
                     nSigs |-> nSigs, nKeys |-> nKeys,
                     nSigsCount |-> nSigs, nKeysCount |-> nKeys,
                     fSuccess |-> TRUE]
    BY <1>2 DEF StepMultisig
  <2> HIDE DEF nKeys, nSigs
  <2>2. /\ DOMAIN multi' = MultiFields
        /\ multi'.nSigs = nSigs /\ multi'.nKeys = nKeys
        /\ multi'.nSigsCount = nSigs /\ multi'.nKeysCount = nKeys
        /\ multi'.fSuccess = TRUE
    BY <2>1 DEF MultiFields
  <2>3. nKeys \in Nat /\ nSigs \in Nat /\ nSigs <= nKeys
    BY <2>1
  <2>4. Matched(multi.nSigs, multi.nKeys)'
        <=> Matched(multi.nSigsCount, multi.nKeysCount)'
    BY <2>2
  <2>5. /\ multi'.nSigs \in Nat /\ multi'.nKeys \in Nat
        /\ multi'.nSigsCount \in 0 .. multi'.nSigs
        /\ multi'.nKeysCount \in 0 .. multi'.nKeys
    BY <2>2, <2>3
  <2>6. multi'.fSuccess \in BOOLEAN
    BY <2>2, Zenon
  <2>7. multi'.fSuccess =>
            /\ multi'.nSigsCount <= multi'.nKeysCount
            /\ Matched(multi.nSigs, multi.nKeys)'
               <=> Matched(multi.nSigsCount, multi.nKeysCount)'
    BY <2>2, <2>3, <2>4
  <2>8. ~multi'.fSuccess => ~Matched(multi.nSigs, multi.nKeys)'
    BY <2>2
  <2> QED
    BY <2>2, <2>5, <2>6, <2>7, <2>8, Zenon DEF MultisigInv
<1> QED
  BY <1>1, <1>2

\* A turn of the loop takes the last key, and the last signature if the key is
\* its own: what is left has a solution exactly when there was one.
LEMMA TryKeeps == MultisigInv /\ TrySignature => MultisigInv'
<1> SUFFICES ASSUME MultisigInv, TrySignature PROVE MultisigInv'
  OBVIOUS
<1> DEFINE s == multi.nSigsCount
           k == multi.nKeysCount
           fOk == Verifies(multi.sigs[s], multi.keys[k])
           sLeft == s - (IF fOk THEN 1 ELSE 0)
<1>1. CASE Reject
  BY <1>1, LoadLeaves DEF MultisigInv, NoMulti
<1>2. CASE ~Reject
  <2>1. /\ multi.at = "trying" /\ multi.fSuccess /\ s > 0
        /\ multi' = [multi EXCEPT !.nSigsCount = sLeft, !.nKeysCount = k - 1,
                                  !.fSuccess = sLeft <= k - 1]
        /\ UNCHANGED <<phase, pbegincodehash>>
    BY <1>2 DEF TrySignature, Trying, KeysAfter
  <2>2. /\ DOMAIN multi = MultiFields
        /\ multi.nSigs \in Nat /\ multi.nKeys \in Nat
        /\ s \in 0 .. multi.nSigs /\ k \in 0 .. multi.nKeys /\ s <= k
        /\ Matched(multi.nSigs, multi.nKeys) <=> Matched(s, k)
    BY <2>1 DEF MultisigInv
  <2>3. /\ s \in Nat \ {0} /\ k \in Nat \ {0}
        /\ sLeft \in Nat /\ sLeft <= s
    BY <2>1, <2>2
  <2>4. Matched(s, k) <=> Matched(sLeft, k - 1)
    <3>1. CASE fOk
      BY <2>3, <3>1, MatchedTake
    <3>2. CASE ~fOk
      BY <2>3, <3>2, MatchedSkip
    <3> QED
      BY <3>1, <3>2
  <2> HIDE DEF s, k, sLeft
  <2>5. /\ DOMAIN multi' = MultiFields
        /\ multi'.at = "trying"
        /\ multi'.nSigs = multi.nSigs /\ multi'.nKeys = multi.nKeys
        /\ multi'.sigs = multi.sigs /\ multi'.keys = multi.keys
        /\ multi'.nSigsCount = sLeft /\ multi'.nKeysCount = k - 1
        /\ multi'.fSuccess = (sLeft <= k - 1)
    BY <2>1, <2>2 DEF MultiFields
  <2>6. \A i, j : Matched(i, j)' <=> Matched(i, j)
    BY <2>1, <2>5 DEF Matched, Verifies
  <2>7. /\ sLeft \in 0 .. multi.nSigs /\ k - 1 \in 0 .. multi.nKeys
        /\ k - 1 \in Nat
    BY <2>2, <2>3
  <2>8. ~(sLeft <= k - 1) => ~Matched(multi.nSigs, multi.nKeys)
    BY <2>2, <2>3, <2>4, <2>7, MatchedFew
  <2>9. /\ Matched(multi.nSigs, multi.nKeys)'
           <=> Matched(multi.nSigs, multi.nKeys)
        /\ Matched(multi.nSigsCount, multi.nKeysCount)'
           <=> Matched(sLeft, k - 1)
    BY <2>5, <2>6
  <2>10. /\ multi'.nSigs \in Nat /\ multi'.nKeys \in Nat
         /\ multi'.nSigsCount \in 0 .. multi'.nSigs
         /\ multi'.nKeysCount \in 0 .. multi'.nKeys
         /\ multi'.fSuccess \in BOOLEAN
    BY <2>2, <2>5, <2>7
  <2>11. multi'.fSuccess =>
            /\ multi'.nSigsCount <= multi'.nKeysCount
            /\ Matched(multi.nSigs, multi.nKeys)'
               <=> Matched(multi.nSigsCount, multi.nKeysCount)'
    BY <2>2, <2>4, <2>5, <2>9
  <2>12. ~multi'.fSuccess => ~Matched(multi.nSigs, multi.nKeys)'
    BY <2>5, <2>8, <2>9
  <2> QED
    BY <2>5, <2>10, <2>11, <2>12, Zenon DEF MultisigInv
<1> QED
  BY <1>1, <1>2

\* The invariant of the loop holds in every state of every verification.
LEMMA LoopInvariant == Spec => []MultisigInv
<1>1. Init => MultisigInv
  BY DEF Init, NoMulti, MultisigInv
<1>2. MultisigInv /\ [Next]_vars => MultisigInv'
  <2> SUFFICES ASSUME MultisigInv, [Next]_vars PROVE MultisigInv'
    OBVIOUS
  <2>1. CASE StepMultisig
    BY <2>1, BeginKeeps
  <2>2. CASE TrySignature
    BY <2>2, TryKeeps
  <2>3. CASE Next /\ ~StepMultisig /\ ~TrySignature
    BY <2>3, OthersApart, ApartKeeps DEF Next, Step
  <2>4. CASE UNCHANGED vars
    BY <2>4, ApartKeeps DEF vars, machine, Apart
  <2> QED
    BY <2>1, <2>2, <2>3, <2>4
<1> QED
  BY <1>1, <1>2, PTL DEF Spec

\* The loop of CHECKMULTISIG, which tries each key once and goes back to none,
\* ends with success exactly when the signatures can be given keys in order,
\* for any number of either (interpreter.js, OP_CHECKMULTISIG).
THEOREM MultisigFindsMatch == Spec => []MultisigExact
<1>1. MultisigInv => MultisigExact
  <2> SUFFICES ASSUME MultisigInv, multi.at = "trying", ~Trying
               PROVE  multi.fSuccess <=> Matched(multi.nSigs, multi.nKeys)
    BY DEF MultisigExact
  <2>1. CASE multi.fSuccess
    <3>1. multi.nSigsCount = 0 /\ multi.nKeysCount \in Nat
      BY <2>1 DEF MultisigInv, Trying
    <3> QED
      BY <2>1, <3>1, MatchedNone DEF MultisigInv
  <2>2. CASE ~multi.fSuccess
    BY <2>2 DEF MultisigInv
  <2> QED
    BY <2>1, <2>2
<1> QED
  BY <1>1, LoopInvariant, PTL

-----------------------------------------------------------------------------
\* The brackets of a script, one instruction at a time

Ifs(q, r) == {k \in q .. r : script[k].op \in {"IF", "NOTIF"}}
Endifs(q, r) == {k \in q .. r : script[k].op = "ENDIF"}

\* Counts are numbers, and with one more instruction they grow by one or not
\* at all.
LEMMA CountsGrow ==
    ASSUME NEW q \in Nat, NEW r \in Nat, q <= r + 1
    PROVE  /\ Cardinality(Ifs(q, r)) \in Nat /\ Cardinality(Endifs(q, r)) \in Nat
           /\ Cardinality(Ifs(q, r + 1)) = Cardinality(Ifs(q, r))
                 + (IF script[r + 1].op \in {"IF", "NOTIF"} THEN 1 ELSE 0)
           /\ Cardinality(Endifs(q, r + 1)) = Cardinality(Endifs(q, r))
                 + (IF script[r + 1].op = "ENDIF" THEN 1 ELSE 0)
<1>1. IsFiniteSet(q .. r)
  BY FS_Interval
<1>2. /\ IsFiniteSet(Ifs(q, r)) /\ IsFiniteSet(Endifs(q, r))
  BY <1>1, FS_Subset DEF Ifs, Endifs
<1>3. q .. (r + 1) = (q .. r) \cup {r + 1} /\ r + 1 \notin q .. r
  OBVIOUS
<1>4. /\ Ifs(q, r + 1) = IF script[r + 1].op \in {"IF", "NOTIF"}
                         THEN Ifs(q, r) \cup {r + 1} ELSE Ifs(q, r)
      /\ r + 1 \notin Ifs(q, r)
  BY <1>3 DEF Ifs
<1>5. /\ Endifs(q, r + 1) = IF script[r + 1].op = "ENDIF"
                            THEN Endifs(q, r) \cup {r + 1} ELSE Endifs(q, r)
      /\ r + 1 \notin Endifs(q, r)
  BY <1>3 DEF Endifs
<1>6. Cardinality(Ifs(q, r)) \in Nat /\ Cardinality(Endifs(q, r)) \in Nat
  BY <1>2, FS_CardinalityType
<1>7. Cardinality(Ifs(q, r + 1)) = Cardinality(Ifs(q, r))
         + (IF script[r + 1].op \in {"IF", "NOTIF"} THEN 1 ELSE 0)
  <2>1. Cardinality(Ifs(q, r) \cup {r + 1}) = Cardinality(Ifs(q, r)) + 1
    BY <1>2, <1>4, FS_AddElement
  <2> QED
    BY <1>4, <1>6, <2>1
<1>8. Cardinality(Endifs(q, r + 1)) = Cardinality(Endifs(q, r))
         + (IF script[r + 1].op = "ENDIF" THEN 1 ELSE 0)
  <2>1. Cardinality(Endifs(q, r) \cup {r + 1}) = Cardinality(Endifs(q, r)) + 1
    BY <1>2, <1>5, FS_AddElement
  <2> QED
    BY <1>5, <1>6, <2>1
<1> QED
  BY <1>6, <1>7, <1>8

\* What encloses an instruction: the conditionals that are opened before it
\* and in which, at no point up to it, as many are closed as opened.
LEMMA EnclosingCounts ==
    ASSUME NEW p \in Nat, NEW q
    PROVE  q \in Enclosing(p) <=>
              /\ q \in 1 .. p - 1 /\ script[q].op \in {"IF", "NOTIF"}
              /\ \A r \in q .. p - 1 : Cardinality(Endifs(q, r)) < Cardinality(Ifs(q, r))
BY DEF Enclosing, Endifs, Ifs

\* A conditional encloses what comes after it, ENDIF closes one of each that
\* is open, and no other instruction changes what is enclosed.
LEMMA EnclosingSteps ==
    ASSUME NEW p \in Nat \ {0}
    PROVE  /\ script[p].op \in {"IF", "NOTIF"} => Enclosing(p + 1) = Enclosing(p) \cup {p}
           /\ script[p].op = "ENDIF" =>
                 Enclosing(p + 1) = {q \in Enclosing(p) :
                    Cardinality(Endifs(q, p - 1)) + 1 < Cardinality(Ifs(q, p - 1))}
           /\ script[p].op \notin {"IF", "NOTIF", "ENDIF"} =>
                 Enclosing(p + 1) = Enclosing(p)
<1> DEFINE opening == script[p].op \in {"IF", "NOTIF"}
           closing == script[p].op = "ENDIF"
<1>1. ASSUME NEW q \in 1 .. p - 1
      PROVE  q \in Enclosing(p + 1) <=>
                q \in Enclosing(p) /\ Cardinality(Endifs(q, p)) < Cardinality(Ifs(q, p))
  <2>1. q .. (p + 1) - 1 = (q .. p - 1) \cup {p} /\ q \in 1 .. (p + 1) - 1 /\ p + 1 \in Nat
    OBVIOUS
  <2>2. q \in Enclosing(p + 1) <=>
           /\ script[q].op \in {"IF", "NOTIF"}
           /\ \A r \in q .. (p + 1) - 1 : Cardinality(Endifs(q, r)) < Cardinality(Ifs(q, r))
    BY <2>1, EnclosingCounts
  <2>3. q \in Enclosing(p) <=>
           /\ script[q].op \in {"IF", "NOTIF"}
           /\ \A r \in q .. p - 1 : Cardinality(Endifs(q, r)) < Cardinality(Ifs(q, r))
    BY EnclosingCounts
  <2> QED
    BY <2>1, <2>2, <2>3
<1>2. ASSUME NEW q \in 1 .. p - 1
      PROVE  /\ Cardinality(Ifs(q, p)) = Cardinality(Ifs(q, p - 1)) + (IF opening THEN 1 ELSE 0)
             /\ Cardinality(Endifs(q, p)) = Cardinality(Endifs(q, p - 1))
                                            + (IF closing THEN 1 ELSE 0)
             /\ Cardinality(Ifs(q, p - 1)) \in Nat /\ Cardinality(Endifs(q, p - 1)) \in Nat
  <2>1. PICK r \in Nat : r = p - 1 /\ r + 1 = p
    OBVIOUS
  <2>2. q \in Nat /\ q <= r + 1
    BY <2>1
  <2>3. /\ Cardinality(Ifs(q, r)) \in Nat /\ Cardinality(Endifs(q, r)) \in Nat
        /\ Cardinality(Ifs(q, r + 1)) = Cardinality(Ifs(q, r))
              + (IF script[r + 1].op \in {"IF", "NOTIF"} THEN 1 ELSE 0)
        /\ Cardinality(Endifs(q, r + 1)) = Cardinality(Endifs(q, r))
              + (IF script[r + 1].op = "ENDIF" THEN 1 ELSE 0)
    BY <2>2, CountsGrow
  <2> QED
    BY <2>1, <2>3
<1>3. ASSUME NEW q \in Enclosing(p)
      PROVE  q \in 1 .. p - 1 /\ Cardinality(Endifs(q, p - 1)) < Cardinality(Ifs(q, p - 1))
  <2>1. /\ q \in 1 .. p - 1
        /\ \A r \in q .. p - 1 : Cardinality(Endifs(q, r)) < Cardinality(Ifs(q, r))
    BY EnclosingCounts
  <2>2. p - 1 \in q .. p - 1
    BY <2>1
  <2> QED
    BY <2>1, <2>2
<1>4. \A q \in Enclosing(p + 1) : q \in 1 .. p - 1 \/ (q = p /\ opening)
  BY DEF Enclosing
<1>5. opening => p \in Enclosing(p + 1)
  <2> SUFFICES ASSUME opening PROVE p \in Enclosing(p + 1)
    OBVIOUS
  <2>1. Ifs(p, p) = {p} /\ Endifs(p, p) = {}
    BY DEF Ifs, Endifs
  <2>2. Cardinality({p}) = 1 /\ Cardinality({}) = 0
    BY FS_Singleton, FS_EmptySet
  <2>3. /\ p \in 1 .. (p + 1) - 1 /\ p + 1 \in Nat
        /\ \A r \in p .. (p + 1) - 1 : r = p
    OBVIOUS
  <2>4. Cardinality(Endifs(p, p)) < Cardinality(Ifs(p, p))
    BY <2>1, <2>2
  <2> QED
    BY <2>3, <2>4, EnclosingCounts
<1>6. \A q \in Enclosing(p) :
         q \in Enclosing(p + 1) <=>
            Cardinality(Endifs(q, p - 1)) + (IF closing THEN 1 ELSE 0)
            < Cardinality(Ifs(q, p - 1)) + (IF opening THEN 1 ELSE 0)
  BY <1>1, <1>2, <1>3
<1>7. Enclosing(p + 1) \subseteq Enclosing(p) \cup (IF opening THEN {p} ELSE {})
  BY <1>1, <1>4
<1>8. CASE opening
  <2>1. ~closing
    BY <1>8
  <2>2. \A q \in Enclosing(p) : q \in Enclosing(p + 1)
    BY <1>2, <1>3, <1>6, <1>8, <2>1
  <2> QED
    BY <1>5, <1>7, <1>8, <2>1, <2>2
<1>9. CASE closing
  <2>1. ~opening
    BY <1>9
  <2>2. \A q \in Enclosing(p) :
           q \in Enclosing(p + 1) <=>
              Cardinality(Endifs(q, p - 1)) + 1 < Cardinality(Ifs(q, p - 1))
    BY <1>2, <1>3, <1>6, <1>9, <2>1
  <2> QED
    BY <1>7, <1>9, <2>1, <2>2
<1>10. CASE ~opening /\ ~closing
  <2>1. \A q \in Enclosing(p) : q \in Enclosing(p + 1)
    BY <1>2, <1>3, <1>6, <1>10
  <2> QED
    BY <1>7, <1>10, <2>1
<1> QED
  BY <1>8, <1>9, <1>10

\* An ELSE belongs to the innermost conditional around it.
LEMMA ElsesSteps ==
    ASSUME NEW p \in Nat \ {0}, NEW q \in 1 .. p - 1
    PROVE  /\ Cardinality(ElsesOf(q, p)) \in Nat
           /\ Cardinality(ElsesOf(q, p + 1)) = Cardinality(ElsesOf(q, p))
                 + (IF script[p].op = "ELSE" /\ q \in Enclosing(p)
                       /\ \A e \in Enclosing(p) : e <= q THEN 1 ELSE 0)
<1> DEFINE mine == /\ script[p].op = "ELSE" /\ q \in Enclosing(p)
                   /\ \A e \in Enclosing(p) : e <= q
<1>1. IsFiniteSet(q + 1 .. p - 1)
  BY FS_Interval
<1>2. ElsesOf(q, p) \subseteq q + 1 .. p - 1 /\ p \notin ElsesOf(q, p)
  BY DEF ElsesOf
<1>3. IsFiniteSet(ElsesOf(q, p)) /\ Cardinality(ElsesOf(q, p)) \in Nat
  BY <1>1, <1>2, FS_Subset, FS_CardinalityType
<1>4. q + 1 .. (p + 1) - 1 = (q + 1 .. p - 1) \cup {p}
  OBVIOUS
<1>5. ElsesOf(q, p + 1) = IF mine THEN ElsesOf(q, p) \cup {p} ELSE ElsesOf(q, p)
  BY <1>4 DEF ElsesOf
<1> HIDE DEF mine
<1>6. Cardinality(ElsesOf(q, p + 1))
         = Cardinality(ElsesOf(q, p)) + (IF mine THEN 1 ELSE 0)
  BY <1>2, <1>3, <1>5, FS_AddElement
<1> QED
  BY <1>3, <1>6 DEF mine

-----------------------------------------------------------------------------
\* The conditionals that are open

\* open names, from the outside in, the conditionals around the instruction to
\* come: vfExec has a bit for each, which says whether the branch runs.
Brackets(open) ==
    /\ open \in Seq(Nat) /\ Len(open) = Len(vfExec)
    /\ \A i, j \in 1 .. Len(open) : i < j => open[i] < open[j]
    /\ Enclosing(pc + 1) = {open[i] : i \in 1 .. Len(open)}
    /\ \A i \in 1 .. Len(open) :
          Cardinality(Ifs(open[i], pc)) = Cardinality(Endifs(open[i], pc)) + Len(open) - i + 1
    /\ \A i \in 1 .. Len(open) :
          vfExec[i] <=> (open[i] \in taken
                            <=> Cardinality(ElsesOf(open[i], pc + 1)) % 2 = 0)

BranchInv ==
    /\ pc \in Nat
    /\ vfExec \in Seq(BOOLEAN)
    /\ ran \subseteq 1 .. pc /\ taken \subseteq 1 .. pc
    /\ \E open : Brackets(open)
    /\ BranchesMatch

\* A script that is loaded has nothing open.
LEMMA LoadMatches ==
    ASSUME pc' = 0, vfExec' = <<>>, ran' = {}, taken' = {}
    PROVE  BranchInv'
<1> DEFINE open == <<>>
<1>1. Enclosing(pc + 1)' = {}
  <2>1. 1 .. (pc' + 1) - 1 = {}
    OBVIOUS
  <2> QED
    BY <2>1 DEF Enclosing
<1>2. /\ open \in Seq(Nat) /\ Len(open) = 0 /\ 1 .. 0 = {}
      /\ Len(vfExec') = 0 /\ vfExec' \in Seq(BOOLEAN)
  OBVIOUS
<1>3. Brackets(open)'
  BY <1>1, <1>2 DEF Brackets
<1>4. BranchesMatch'
  <2>1. 1 .. pc' = {}
    OBVIOUS
  <2> QED
    BY <2>1 DEF BranchesMatch
<1> QED
  BY <1>2, <1>3, <1>4 DEF BranchInv

\* Every bit of vfExec is set when every conditional around the instruction
\* runs the branch that it is in.
LEMMA ExecutingMatches ==
    ASSUME BranchInv
    PROVE  Executing <=> \A q \in Enclosing(pc + 1) :
                            q \in taken <=> Cardinality(ElsesOf(q, pc + 1)) % 2 = 0
<1>1. PICK open : Brackets(open)
  BY DEF BranchInv
<1>2. DOMAIN vfExec = 1 .. Len(open)
  BY <1>1 DEF BranchInv, Brackets
<1> QED
  BY <1>1, <1>2 DEF Executing, Brackets

\* What is around an instruction depends on the script alone.
LEMMA SameScript ==
    ASSUME script' = script
    PROVE  /\ \A p : Enclosing(p)' = Enclosing(p)
           /\ \A q, p : ElsesOf(q, p)' = ElsesOf(q, p)
           /\ \A q, r : Ifs(q, r)' = Ifs(q, r) /\ Endifs(q, r)' = Endifs(q, r)
BY DEF Enclosing, ElsesOf, Ifs, Endifs

\* A step that reads no instruction.
LEMMA StillMatches ==
    ASSUME BranchInv, UNCHANGED <<script, pc, vfExec, ran, taken>>
    PROVE  BranchInv'
<1>1. PICK open : Brackets(open)
  BY DEF BranchInv
<1>2. /\ pc' = pc /\ vfExec' = vfExec /\ ran' = ran /\ taken' = taken /\ script' = script
  OBVIOUS
<1>3. Brackets(open)'
  BY <1>1, <1>2, SameScript DEF Brackets
<1>4. BranchesMatch'
  BY <1>2, SameScript DEF BranchInv, BranchesMatch
<1> QED
  BY <1>2, <1>3, <1>4 DEF BranchInv

\* An instruction that takes effect exactly when vfExec says so keeps the match.
LEMMA NextMatches ==
    ASSUME BranchInv, script' = script, pc' = pc + 1,
           ran \subseteq ran', ran' \subseteq ran \cup {pc + 1},
           taken \subseteq taken', taken' \subseteq taken \cup {pc + 1},
           Current.op \notin CondOps \ {"IF", "NOTIF"} => (pc + 1 \in ran' <=> Executing)
    PROVE  BranchesMatch'
<1> SUFFICES ASSUME NEW p \in 1 .. pc + 1, script[p].op \notin CondOps \ {"IF", "NOTIF"}
             PROVE  p \in ran' <=>
                       \A q \in Enclosing(p) :
                          q \in taken' <=> Cardinality(ElsesOf(q, p)) % 2 = 0
  BY SameScript DEF BranchesMatch
<1>1. pc \in Nat /\ p \in Nat
  BY DEF BranchInv
<1>2. \A q \in Enclosing(p) : q \in 1 .. p - 1
  BY DEF Enclosing
<1>3. \A q \in Enclosing(p) : q \in taken' <=> q \in taken
  BY <1>1, <1>2
<1>4. CASE p <= pc
  <2>1. p \in 1 .. pc /\ (p \in ran' <=> p \in ran)
    BY <1>1, <1>4
  <2> QED
    BY <1>3, <2>1 DEF BranchInv, BranchesMatch
<1>5. CASE p = pc + 1
  BY <1>3, <1>5, ExecutingMatches DEF Current
<1> QED
  BY <1>1, <1>4, <1>5

\* What Brackets says after an instruction of the same script.
LEMMA BracketsNext ==
    ASSUME script' = script, NEW p, p = pc + 1, pc' = p, NEW open
    PROVE  Brackets(open)' <=>
              /\ open \in Seq(Nat) /\ Len(open) = Len(vfExec')
              /\ \A i, j \in 1 .. Len(open) : i < j => open[i] < open[j]
              /\ Enclosing(p + 1) = {open[i] : i \in 1 .. Len(open)}
              /\ \A i \in 1 .. Len(open) :
                    Cardinality(Ifs(open[i], p))
                        = Cardinality(Endifs(open[i], p)) + Len(open) - i + 1
              /\ \A i \in 1 .. Len(open) :
                    vfExec'[i] <=> (open[i] \in taken'
                                      <=> Cardinality(ElsesOf(open[i], p + 1)) % 2 = 0)
<1>1. /\ Enclosing(pc + 1)' = Enclosing(p + 1)
      /\ \A q : Ifs(q, pc)' = Ifs(q, p) /\ Endifs(q, pc)' = Endifs(q, p)
      /\ \A q : ElsesOf(q, pc + 1)' = ElsesOf(q, p + 1)
  BY SameScript
<1> QED
  BY <1>1 DEF Brackets

\* What it says before that instruction.
LEMMA BracketsNow ==
    ASSUME NEW p, p = pc + 1, NEW open, Brackets(open)
    PROVE  /\ Enclosing(p) = {open[i] : i \in 1 .. Len(open)}
           /\ \A i \in 1 .. Len(open) :
                 vfExec[i] <=> (open[i] \in taken <=> Cardinality(ElsesOf(open[i], p)) % 2 = 0)
BY DEF Brackets

\* How the instruction changes the counts of a conditional that is open.
LEMMA OpenGrows ==
    ASSUME BranchInv, NEW p, p = pc + 1, NEW open, Brackets(open), NEW i \in 1 .. Len(open)
    PROVE  /\ open[i] \in 1 .. pc /\ open[i] \in Nat
           /\ Cardinality(Ifs(open[i], pc)) \in Nat /\ Cardinality(Endifs(open[i], pc)) \in Nat
           /\ Cardinality(Ifs(open[i], p)) = Cardinality(Ifs(open[i], pc))
                 + (IF script[p].op \in {"IF", "NOTIF"} THEN 1 ELSE 0)
           /\ Cardinality(Endifs(open[i], p)) = Cardinality(Endifs(open[i], pc))
                 + (IF script[p].op = "ENDIF" THEN 1 ELSE 0)
           /\ Cardinality(ElsesOf(open[i], p)) \in Nat
           /\ Cardinality(ElsesOf(open[i], p + 1)) = Cardinality(ElsesOf(open[i], p))
                 + (IF script[p].op = "ELSE" /\ i = Len(open) THEN 1 ELSE 0)
<1>1. pc \in Nat /\ p \in Nat \ {0} /\ open[i] \in Enclosing(p)
  <2>1. pc \in Nat /\ p \in Nat \ {0}
    BY DEF BranchInv
  <2>2. open[i] \in Enclosing(p)
    BY DEF Brackets
  <2> QED
    BY <2>1, <2>2
<1>2. open[i] \in 1 .. pc /\ open[i] \in Nat /\ open[i] \in 1 .. p - 1 /\ open[i] <= pc + 1
  BY <1>1 DEF Enclosing
<1>3. /\ Cardinality(Ifs(open[i], pc)) \in Nat /\ Cardinality(Endifs(open[i], pc)) \in Nat
      /\ Cardinality(Ifs(open[i], pc + 1)) = Cardinality(Ifs(open[i], pc))
            + (IF script[pc + 1].op \in {"IF", "NOTIF"} THEN 1 ELSE 0)
      /\ Cardinality(Endifs(open[i], pc + 1)) = Cardinality(Endifs(open[i], pc))
            + (IF script[pc + 1].op = "ENDIF" THEN 1 ELSE 0)
  BY <1>1, <1>2, CountsGrow
<1>4. (\A e \in Enclosing(p) : e <= open[i]) <=> i = Len(open)
  <2>1. Len(open) \in Nat /\ Len(open) \in 1 .. Len(open)
    BY DEF Brackets
  <2>2. \A j \in 1 .. Len(open) : open[j] \in Nat
    BY DEF Brackets
  <2>3. i # Len(open) => open[i] < open[Len(open)] /\ open[Len(open)] \in Enclosing(p)
    BY <2>1 DEF Brackets
  <2>4. i = Len(open) => \A j \in 1 .. Len(open) : open[j] <= open[i]
    <3> SUFFICES ASSUME i = Len(open), NEW j \in 1 .. Len(open) PROVE open[j] <= open[i]
      OBVIOUS
    <3>1. j < i => open[j] < open[i]
      BY DEF Brackets
    <3> QED
      BY <2>1, <2>2, <3>1
  <2>5. Enclosing(p) = {open[j] : j \in 1 .. Len(open)}
    BY BracketsNow
  <2>6. CASE i = Len(open)
    <3>1. \A e \in Enclosing(p) : e <= open[i]
      BY <2>4, <2>5, <2>6
    <3> QED
      BY <2>6, <3>1
  <2>7. CASE i # Len(open)
    <3>1. open[Len(open)] \in Enclosing(p) /\ ~(open[Len(open)] <= open[i])
      BY <2>1, <2>2, <2>3, <2>7
    <3> QED
      BY <2>7, <3>1
  <2> QED
    BY <2>6, <2>7
<1>5. /\ Cardinality(ElsesOf(open[i], p)) \in Nat
      /\ Cardinality(ElsesOf(open[i], p + 1)) = Cardinality(ElsesOf(open[i], p))
            + (IF script[p].op = "ELSE" /\ open[i] \in Enclosing(p)
                  /\ \A e \in Enclosing(p) : e <= open[i] THEN 1 ELSE 0)
  BY <1>1, <1>2, ElsesSteps
<1> QED
  BY <1>1, <1>2, <1>3, <1>4, <1>5

\* An instruction that is no conditional changes no bracket.
LEMMA QuietMatches ==
    ASSUME BranchInv, script' = script, pc' = pc + 1, UNCHANGED <<vfExec, taken>>,
           Current.op \notin CondOps,
           ran' = IF Executing THEN ran \cup {pc + 1} ELSE ran
    PROVE  BranchInv'
<1>1. PICK p : p = pc + 1
  OBVIOUS
<1>2. pc \in Nat /\ p \in Nat \ {0} /\ p \notin ran /\ p \notin taken
  BY <1>1 DEF BranchInv
<1>3. script[p].op \notin {"IF", "NOTIF"} /\ script[p].op # "ENDIF" /\ script[p].op # "ELSE"
  BY <1>1 DEF Current, CondOps
<1>4. PICK open : Brackets(open)
  BY DEF BranchInv
<1>5. Brackets(open)'
  <2>1. Enclosing(p + 1) = Enclosing(p)
    BY <1>2, <1>3, EnclosingSteps
  <2>2. ASSUME NEW i \in 1 .. Len(open)
        PROVE  /\ Cardinality(Ifs(open[i], p)) = Cardinality(Endifs(open[i], p)) + Len(open) - i + 1
               /\ Cardinality(ElsesOf(open[i], p + 1)) = Cardinality(ElsesOf(open[i], p))
    <3>1. /\ Cardinality(Ifs(open[i], p)) = Cardinality(Ifs(open[i], pc))
          /\ Cardinality(Endifs(open[i], p)) = Cardinality(Endifs(open[i], pc))
          /\ Cardinality(ElsesOf(open[i], p + 1)) = Cardinality(ElsesOf(open[i], p))
      <4>1. \A n \in Nat : n + 0 = n
        OBVIOUS
      <4> QED
        BY <1>1, <1>3, <1>4, <4>1, OpenGrows, SMTT(30)
    <3> QED
      BY <1>4, <3>1 DEF Brackets
  <2>3. /\ Enclosing(p + 1) = {open[i] : i \in 1 .. Len(open)}
        /\ \A i \in 1 .. Len(open) :
              vfExec'[i] <=> (open[i] \in taken'
                                <=> Cardinality(ElsesOf(open[i], p + 1)) % 2 = 0)
    BY <1>1, <1>4, <2>1, <2>2, BracketsNow
  <2>4. /\ open \in Seq(Nat) /\ Len(open) = Len(vfExec')
        /\ \A i, j \in 1 .. Len(open) : i < j => open[i] < open[j]
    BY <1>4 DEF Brackets
  <2> QED
    BY <1>1, <2>2, <2>3, <2>4, BracketsNext
<1>6. BranchesMatch'
  BY <1>1, <1>2, NextMatches
<1>7. ran' \subseteq 1 .. pc' /\ taken' \subseteq 1 .. pc' /\ pc' \in Nat
  BY <1>2 DEF BranchInv
<1> QED
  BY <1>5, <1>6, <1>7 DEF BranchInv

\* IF and NOTIF open one more.
LEMMA IfMatches ==
    ASSUME BranchInv, script' = script, pc' = pc + 1, Current.op \in {"IF", "NOTIF"},
           NEW v \in BOOLEAN, vfExec' = Append(vfExec, v),
           ran' = IF Executing THEN ran \cup {pc + 1} ELSE ran,
           taken' = IF v THEN taken \cup {pc + 1} ELSE taken
    PROVE  BranchInv'
<1>1. PICK p : p = pc + 1
  OBVIOUS
<1>2. pc \in Nat /\ p \in Nat \ {0} /\ p \notin ran /\ p \notin taken /\ vfExec \in Seq(BOOLEAN)
  BY <1>1 DEF BranchInv
<1>3. script[p].op \in {"IF", "NOTIF"} /\ script[p].op # "ENDIF" /\ script[p].op # "ELSE"
  BY <1>1 DEF Current
<1>4. PICK open : Brackets(open)
  BY DEF BranchInv
<1> DEFINE wider == Append(open, p)
<1>5. /\ open \in Seq(Nat) /\ Len(open) \in Nat /\ Len(vfExec) = Len(open)
      /\ wider \in Seq(Nat) /\ Len(wider) = Len(open) + 1
      /\ wider[Len(open) + 1] = p /\ vfExec'[Len(open) + 1] = v
      /\ Len(vfExec') = Len(open) + 1 /\ vfExec' \in Seq(BOOLEAN)
      /\ \A i \in 1 .. Len(open) : wider[i] = open[i] /\ vfExec'[i] = vfExec[i]
      /\ 1 .. Len(open) + 1 = (1 .. Len(open)) \cup {Len(open) + 1}
  BY <1>2, <1>4 DEF Brackets
<1> HIDE DEF wider
<1>6. \A i \in 1 .. Len(open) : open[i] \in Nat /\ open[i] < p
  BY <1>1, <1>2, <1>4, OpenGrows
<1>7. Brackets(wider)'
  <2>1. \A i, j \in 1 .. Len(wider) : i < j => wider[i] < wider[j]
    <3> SUFFICES ASSUME NEW i \in 1 .. Len(wider), NEW j \in 1 .. Len(wider), i < j
                 PROVE  wider[i] < wider[j]
      OBVIOUS
    <3>1. i \in 1 .. Len(open)
      BY <1>5
    <3>2. CASE j \in 1 .. Len(open)
      BY <1>4, <1>5, <3>1, <3>2 DEF Brackets
    <3>3. CASE j = Len(open) + 1
      BY <1>5, <1>6, <3>1, <3>3
    <3> QED
      BY <1>5, <3>2, <3>3
  <2>2. Enclosing(p + 1) = {wider[i] : i \in 1 .. Len(wider)}
    <3>1. Enclosing(p + 1) = {open[i] : i \in 1 .. Len(open)} \cup {p}
      <4>1. Enclosing(p + 1) = Enclosing(p) \cup {p}
        BY <1>2, <1>3, EnclosingSteps
      <4>2. Enclosing(p) = {open[i] : i \in 1 .. Len(open)}
        BY <1>1, <1>4, BracketsNow
      <4> QED
        BY <4>1, <4>2
    <3>2. \A i \in 1 .. Len(wider) : wider[i] \in Enclosing(p + 1)
      BY <1>5, <3>1
    <3>3. ASSUME NEW q \in Enclosing(p + 1) PROVE \E i \in 1 .. Len(wider) : q = wider[i]
      <4>1. CASE q = p
        BY <1>5, <4>1
      <4>2. CASE \E i \in 1 .. Len(open) : q = open[i]
        BY <1>5, <4>2
      <4> QED
        BY <3>1, <4>1, <4>2
    <3> QED
      BY <3>2, <3>3
  <2>3. ASSUME NEW i \in 1 .. Len(open)
        PROVE  /\ Cardinality(Ifs(open[i], p))
                     = Cardinality(Endifs(open[i], p)) + (Len(open) + 1) - i + 1
               /\ Cardinality(ElsesOf(open[i], p + 1)) = Cardinality(ElsesOf(open[i], p))
               /\ open[i] \in taken' <=> open[i] \in taken
    <3>1. /\ Cardinality(Ifs(open[i], p)) = Cardinality(Ifs(open[i], pc)) + 1
          /\ Cardinality(Endifs(open[i], p)) = Cardinality(Endifs(open[i], pc))
          /\ Cardinality(Endifs(open[i], pc)) \in Nat
          /\ Cardinality(ElsesOf(open[i], p + 1)) = Cardinality(ElsesOf(open[i], p))
      BY <1>1, <1>3, <1>4, OpenGrows, SMTT(30)
    <3>2. Cardinality(Ifs(open[i], pc)) = Cardinality(Endifs(open[i], pc)) + Len(open) - i + 1
      BY <1>4 DEF Brackets
    <3>3. open[i] \in taken' <=> open[i] \in taken
      BY <1>1, <1>2, <1>6
    <3> QED
      BY <1>5, <3>1, <3>2, <3>3
  <2>4. /\ Cardinality(Ifs(p, p)) = 1 /\ Cardinality(Endifs(p, p)) = 0
        /\ Cardinality(ElsesOf(p, p + 1)) = 0
    <3>1. p .. p = {p} /\ p + 1 .. (p + 1) - 1 = {}
      BY <1>2
    <3>2. Ifs(p, p) = {p} /\ Endifs(p, p) = {} /\ ElsesOf(p, p + 1) = {}
      BY <1>3, <3>1 DEF Ifs, Endifs, ElsesOf
    <3> QED
      BY <3>2, FS_Singleton, FS_EmptySet
  <2>5. p \in taken' <=> v
    BY <1>1, <1>2
  <2>6. \A i \in 1 .. Len(wider) :
           Cardinality(Ifs(wider[i], p)) = Cardinality(Endifs(wider[i], p)) + Len(wider) - i + 1
    BY <1>5, <2>3, <2>4, SMTT(30)
  <2>7. ASSUME NEW i \in 1 .. Len(wider)
        PROVE  vfExec'[i] <=> (wider[i] \in taken'
                                 <=> Cardinality(ElsesOf(wider[i], p + 1)) % 2 = 0)
    <3>1. CASE i \in 1 .. Len(open)
      <4>1. vfExec[i] <=> (open[i] \in taken <=> Cardinality(ElsesOf(open[i], p)) % 2 = 0)
        BY <1>1, <1>4, <3>1, BracketsNow
      <4> QED
        BY <1>5, <2>3, <3>1, <4>1
    <3>2. CASE i = Len(open) + 1
      BY <1>5, <2>4, <2>5, <3>2
    <3> QED
      BY <1>5, <3>1, <3>2
  <2> QED
    BY <1>1, <1>5, <2>1, <2>2, <2>6, <2>7, BracketsNext
<1>8. BranchesMatch'
  BY <1>1, <1>2, NextMatches
<1>9. ran' \subseteq 1 .. pc' /\ taken' \subseteq 1 .. pc' /\ pc' \in Nat
  BY <1>2 DEF BranchInv
<1> QED
  BY <1>5, <1>7, <1>8, <1>9 DEF BranchInv

\* ELSE turns the innermost one over.
LEMMA ElseMatches ==
    ASSUME BranchInv, script' = script, pc' = pc + 1, Current.op = "ELSE", vfExec # <<>>,
           vfExec' = [vfExec EXCEPT ![Len(vfExec)] = ~@], UNCHANGED <<ran, taken>>
    PROVE  BranchInv'
<1>1. PICK p : p = pc + 1
  OBVIOUS
<1>2. pc \in Nat /\ p \in Nat \ {0} /\ vfExec \in Seq(BOOLEAN)
  BY <1>1 DEF BranchInv
<1>3. script[p].op \notin {"IF", "NOTIF"} /\ script[p].op # "ENDIF" /\ script[p].op = "ELSE"
  BY <1>1 DEF Current
<1>4. PICK open : Brackets(open)
  BY DEF BranchInv
<1>5. /\ open \in Seq(Nat) /\ Len(open) = Len(vfExec) /\ Len(open) \in Nat
      /\ Len(vfExec') = Len(open) /\ vfExec' \in Seq(BOOLEAN)
      /\ \A i \in 1 .. Len(open) : vfExec'[i] = IF i = Len(open) THEN ~vfExec[i] ELSE vfExec[i]
  BY <1>2, <1>4 DEF Brackets
<1>6. Brackets(open)'
  <2>1. Enclosing(p + 1) = {open[i] : i \in 1 .. Len(open)}
    <3>1. Enclosing(p + 1) = Enclosing(p)
      BY <1>2, <1>3, EnclosingSteps
    <3>2. Enclosing(p) = {open[i] : i \in 1 .. Len(open)}
      BY <1>1, <1>4, BracketsNow
    <3> QED
      BY <3>1, <3>2
  <2>2. ASSUME NEW i \in 1 .. Len(open)
        PROVE  /\ Cardinality(Ifs(open[i], p)) = Cardinality(Endifs(open[i], p)) + Len(open) - i + 1
               /\ vfExec'[i] <=> (open[i] \in taken'
                                    <=> Cardinality(ElsesOf(open[i], p + 1)) % 2 = 0)
    <3>1. /\ Cardinality(Ifs(open[i], p)) = Cardinality(Ifs(open[i], pc))
          /\ Cardinality(Endifs(open[i], p)) = Cardinality(Endifs(open[i], pc))
          /\ Cardinality(ElsesOf(open[i], p)) \in Nat
          /\ Cardinality(ElsesOf(open[i], p + 1)) = Cardinality(ElsesOf(open[i], p))
                + (IF i = Len(open) THEN 1 ELSE 0)
      <4>1. /\ Cardinality(Ifs(open[i], pc)) \in Nat /\ Cardinality(Endifs(open[i], pc)) \in Nat
            /\ Cardinality(Ifs(open[i], p)) = Cardinality(Ifs(open[i], pc))
                  + (IF script[p].op \in {"IF", "NOTIF"} THEN 1 ELSE 0)
            /\ Cardinality(Endifs(open[i], p)) = Cardinality(Endifs(open[i], pc))
                  + (IF script[p].op = "ENDIF" THEN 1 ELSE 0)
            /\ Cardinality(ElsesOf(open[i], p)) \in Nat
            /\ Cardinality(ElsesOf(open[i], p + 1)) = Cardinality(ElsesOf(open[i], p))
                  + (IF script[p].op = "ELSE" /\ i = Len(open) THEN 1 ELSE 0)
        BY <1>1, <1>4, OpenGrows
      <4> QED
        BY <1>3, <4>1
    <3>2. vfExec[i] <=> (open[i] \in taken <=> Cardinality(ElsesOf(open[i], p)) % 2 = 0)
      BY <1>1, <1>4, BracketsNow
    <3>3. \A n \in Nat : (n + 1) % 2 = 0 <=> ~(n % 2 = 0)
      OBVIOUS
    <3>4. vfExec'[i] <=> (open[i] \in taken'
                            <=> Cardinality(ElsesOf(open[i], p + 1)) % 2 = 0)
      <4>1. CASE i = Len(open)
        <5>1. (Cardinality(ElsesOf(open[i], p)) + 1) % 2 = 0
                <=> ~(Cardinality(ElsesOf(open[i], p)) % 2 = 0)
          BY <3>1, <3>3
        <5>2. Cardinality(ElsesOf(open[i], p + 1)) = Cardinality(ElsesOf(open[i], p)) + 1
          BY <3>1, <4>1
        <5>3. vfExec'[i] <=> ~vfExec[i]
          BY <1>5, <4>1
        <5> QED
          BY <3>2, <5>1, <5>2, <5>3
      <4>2. CASE i # Len(open)
        <5>1. Cardinality(ElsesOf(open[i], p + 1)) = Cardinality(ElsesOf(open[i], p))
          BY <3>1, <4>2
        <5>2. vfExec'[i] = vfExec[i]
          BY <1>5, <4>2
        <5> QED
          BY <3>2, <5>1, <5>2
      <4> QED
        BY <4>1, <4>2
    <3>5. Cardinality(Ifs(open[i], pc)) = Cardinality(Endifs(open[i], pc)) + Len(open) - i + 1
      BY <1>4 DEF Brackets
    <3> QED
      BY <3>1, <3>4, <3>5
  <2>3. /\ open \in Seq(Nat) /\ Len(open) = Len(vfExec')
        /\ \A i, j \in 1 .. Len(open) : i < j => open[i] < open[j]
    BY <1>4, <1>5 DEF Brackets
  <2> QED
    BY <1>1, <2>1, <2>2, <2>3, BracketsNext
<1>7. BranchesMatch'
  <2>1. Current.op \in CondOps \ {"IF", "NOTIF"}
    BY DEF CondOps
  <2> QED
    BY <2>1, NextMatches
<1>8. ran' \subseteq 1 .. pc' /\ taken' \subseteq 1 .. pc' /\ pc' \in Nat
  BY <1>2 DEF BranchInv
<1> QED
  BY <1>5, <1>6, <1>7, <1>8 DEF BranchInv

\* ENDIF closes the innermost one.
LEMMA EndifMatches ==
    ASSUME BranchInv, script' = script, pc' = pc + 1, Current.op = "ENDIF", vfExec # <<>>,
           vfExec' = SubSeq(vfExec, 1, Len(vfExec) - 1), UNCHANGED <<ran, taken>>
    PROVE  BranchInv'
<1>1. PICK p : p = pc + 1
  OBVIOUS
<1>2. pc \in Nat /\ p \in Nat \ {0} /\ vfExec \in Seq(BOOLEAN)
  BY <1>1 DEF BranchInv
<1>3. script[p].op \notin {"IF", "NOTIF"} /\ script[p].op = "ENDIF" /\ script[p].op # "ELSE"
  BY <1>1 DEF Current
<1>4. PICK open : Brackets(open)
  BY DEF BranchInv
<1> DEFINE n == Len(open)
           outer == SubSeq(open, 1, n - 1)
<1>5. /\ open \in Seq(Nat) /\ n = Len(vfExec) /\ n \in Nat /\ n >= 1 /\ n - 1 \in Nat
      /\ vfExec' = SubSeq(vfExec, 1, n - 1)
  BY <1>2, <1>4 DEF Brackets
<1>6. /\ outer \in Seq(Nat) /\ Len(outer) = n - 1
      /\ \A i \in 1 .. n - 1 : i \in 1 .. n /\ outer[i] = open[i]
  BY <1>5, SMTT(30)
<1>7. /\ vfExec' \in Seq(BOOLEAN) /\ Len(vfExec') = n - 1
      /\ \A i \in 1 .. n - 1 : vfExec'[i] = vfExec[i]
  BY <1>2, <1>5
<1> HIDE DEF n, outer
<1>8. Brackets(outer)'
  <2>1. ASSUME NEW i \in 1 .. n
        PROVE  /\ Cardinality(Ifs(open[i], pc)) = Cardinality(Endifs(open[i], pc)) + n - i + 1
               /\ Cardinality(Endifs(open[i], pc)) \in Nat
               /\ Cardinality(Ifs(open[i], p)) = Cardinality(Ifs(open[i], pc))
               /\ Cardinality(Endifs(open[i], p)) = Cardinality(Endifs(open[i], pc)) + 1
               /\ Cardinality(ElsesOf(open[i], p + 1)) = Cardinality(ElsesOf(open[i], p))
    <3>1. Cardinality(Ifs(open[i], pc)) = Cardinality(Endifs(open[i], pc)) + n - i + 1
      BY <1>4 DEF Brackets, n
    <3>2. /\ Cardinality(Ifs(open[i], pc)) \in Nat /\ Cardinality(Endifs(open[i], pc)) \in Nat
          /\ Cardinality(Ifs(open[i], p)) = Cardinality(Ifs(open[i], pc))
                + (IF script[p].op \in {"IF", "NOTIF"} THEN 1 ELSE 0)
          /\ Cardinality(Endifs(open[i], p)) = Cardinality(Endifs(open[i], pc))
                + (IF script[p].op = "ENDIF" THEN 1 ELSE 0)
          /\ Cardinality(ElsesOf(open[i], p)) \in Nat
          /\ Cardinality(ElsesOf(open[i], p + 1)) = Cardinality(ElsesOf(open[i], p))
                + (IF script[p].op = "ELSE" /\ i = Len(open) THEN 1 ELSE 0)
      BY <1>1, <1>4, OpenGrows DEF n
    <3> QED
      BY <1>3, <3>1, <3>2
  <2>2. Enclosing(p) = {open[i] : i \in 1 .. n}
    BY <1>1, <1>4, BracketsNow DEF n
  <2>3. Enclosing(p + 1) = {q \in Enclosing(p) :
           Cardinality(Endifs(q, pc)) + 1 < Cardinality(Ifs(q, pc))}
    <3>1. pc = p - 1
      BY <1>1, <1>2
    <3> QED
      BY <1>2, <1>3, <3>1, EnclosingSteps
  <2>4. \A i \in 1 .. n : open[i] \in Enclosing(p + 1) <=> i \in 1 .. n - 1
    <3> SUFFICES ASSUME NEW i \in 1 .. n
                 PROVE  open[i] \in Enclosing(p + 1) <=> i \in 1 .. n - 1
      OBVIOUS
    <3>1. open[i] \in Enclosing(p + 1)
            <=> Cardinality(Endifs(open[i], pc)) + 1 < Cardinality(Ifs(open[i], pc))
      BY <2>2, <2>3
    <3>2. PICK c \in Nat : c = Cardinality(Endifs(open[i], pc))
      BY <2>1
    <3>3. Cardinality(Ifs(open[i], pc)) = c + n - i + 1
      BY <2>1, <3>2
    <3>4. c + 1 < c + n - i + 1 <=> i \in 1 .. n - 1
      BY <1>5
    <3> QED
      BY <3>1, <3>2, <3>3, <3>4
  <2>5. Enclosing(p + 1) = {outer[i] : i \in 1 .. Len(outer)}
    <3>1. \A i \in 1 .. Len(outer) : outer[i] \in Enclosing(p + 1)
      BY <1>6, <2>4
    <3>2. ASSUME NEW q \in Enclosing(p + 1) PROVE \E i \in 1 .. Len(outer) : q = outer[i]
      <4>1. PICK i \in 1 .. n : q = open[i]
        BY <2>2, <2>3
      <4> QED
        BY <1>6, <2>4, <4>1
    <3> QED
      BY <3>1, <3>2
  <2>6. \A i \in 1 .. Len(outer) :
           Cardinality(Ifs(outer[i], p)) = Cardinality(Endifs(outer[i], p)) + Len(outer) - i + 1
    BY <1>5, <1>6, <2>1
  <2>7. ASSUME NEW i \in 1 .. Len(outer)
        PROVE  vfExec'[i] <=> (outer[i] \in taken'
                                 <=> Cardinality(ElsesOf(outer[i], p + 1)) % 2 = 0)
    <3>1. vfExec[i] <=> (open[i] \in taken <=> Cardinality(ElsesOf(open[i], p)) % 2 = 0)
      BY <1>1, <1>4, <1>6, BracketsNow DEF n
    <3> QED
      BY <1>6, <1>7, <2>1, <3>1
  <2>8. \A i, j \in 1 .. Len(outer) : i < j => outer[i] < outer[j]
    BY <1>4, <1>6 DEF Brackets, n
  <2> QED
    BY <1>1, <1>6, <1>7, <2>5, <2>6, <2>7, <2>8, BracketsNext
<1>9. BranchesMatch'
  <2>1. Current.op \in CondOps \ {"IF", "NOTIF"}
    BY DEF CondOps
  <2> QED
    BY <2>1, NextMatches
<1>10. ran' \subseteq 1 .. pc' /\ taken' \subseteq 1 .. pc' /\ pc' \in Nat
  BY <1>2 DEF BranchInv
<1> QED
  BY <1>7, <1>8, <1>9, <1>10 DEF BranchInv

\* A script is loaded, given up, or followed by none.
Loaded == pc' = 0 /\ vfExec' = <<>> /\ ran' = {} /\ taken' = {}

\* An instruction that is no conditional.
Quiet ==
    /\ script' = script /\ pc' = pc + 1 /\ UNCHANGED <<vfExec, taken>>
    /\ Current.op \notin CondOps
    /\ ran' = IF Executing THEN ran \cup {pc + 1} ELSE ran

\* Every way in which a script is loaded or given up starts from nothing.
LEMMA LoadedMeans ==
    /\ \A p, code, st : Load(p, code, st) => Loaded
    /\ \A v : Return(v) => Loaded
    /\ Reject => Loaded
    /\ \A h, copy : Conclude(h, copy) => Loaded
  BY DEF Load, Return, Reject, Conclude, Loaded

\* So does verifyWitnessProgram.
LEMMA ProgramLoads ==
    ASSUME NEW s, NEW copy, WitnessProgram(s, copy)
    PROVE  Loaded
<1> DEFINE small == Size(s[2].item) \in {20, 32}
<1>1. CASE s[1].op = "NUM" /\ "DISCOURAGE_WITNESS_PROGRAM" \in flags
  BY <1>1, LoadedMeans DEF WitnessProgram
<1>2. CASE s[1].op = "NUM" /\ "DISCOURAGE_WITNESS_PROGRAM" \notin flags
  BY <1>2, LoadedMeans DEF WitnessProgram
<1>3. CASE s[1].op # "NUM" /\ ~small
  BY <1>3, LoadedMeans DEF WitnessProgram
<1>4. CASE s[1].op # "NUM" /\ small
  BY <1>4, LoadedMeans DEF WitnessProgram
<1> QED
  BY <1>1, <1>2, <1>3, <1>4

\* What each step does to the script, to where it stands in it and to what has
\* run.
LEMMA StepKinds ==
    ASSUME Next, ~StepIf, ~StepElse, ~StepEndif
    PROVE  Loaded \/ Quiet \/ UNCHANGED <<script, pc, vfExec, ran, taken>>
<1> USE LoadedMeans
<1>1. ASSUME NEW F \in spend.under, Verify(F)
      PROVE  Loaded \/ UNCHANGED <<script, pc, vfExec, ran, taken>>
  BY <1>1 DEF Verify, machine
<1>2. CASE StepUnreadable \/ StepBad
  BY <1>2 DEF StepUnreadable, StepBad
<1>3. CASE StepSkipped
  BY <1>3 DEF StepSkipped, Advance, Quiet
<1>4. CASE StepPush
  BY <1>4 DEF StepPush, Runs, Executed, Advance, Quiet, CondOps
<1>5. CASE StepRewrite
  BY <1>5 DEF StepRewrite, Runs, Executed, Advance, Quiet, CondOps, RewriteOps, UnaryOps,
              BinaryOps, StackOps, TestOps, HashOps
<1>6. CASE StepDepth \/ StepPick
  BY <1>6 DEF StepDepth, StepPick, Runs, Executed, Advance, Quiet, CondOps
<1>7. CASE StepToAlt \/ StepFromAlt
  BY <1>7 DEF StepToAlt, StepFromAlt, Runs, Executed, Advance, Quiet, CondOps
<1>8. CASE StepTimelock \/ StepNop \/ StepCodeSeparator
  BY <1>8 DEF StepTimelock, StepNop, StepCodeSeparator, NopOps, Runs, Executed, Advance,
              Quiet, CondOps
<1>9. CASE StepCheckSig
  BY <1>9 DEF StepCheckSig, Runs, Executed, Advance, Quiet, CondOps
<1>10. CASE StepMultisig
  BY <1>10 DEF StepMultisig, Runs, Quiet, CondOps
<1>11. CASE TrySignature
  BY <1>11 DEF TrySignature
<1>12. CASE EndMultisig
  BY <1>12 DEF EndMultisig
<1>13. CASE End
  BY <1>13, ProgramLoads DEF End, EndBad, EndScriptSig, EndScriptPubkey, EndRedeemScript,
                             EndWitness
<1> QED
  BY <1>1, <1>2, <1>3, <1>4, <1>5, <1>6, <1>7, <1>8, <1>9, <1>10, <1>11, <1>12, <1>13
     DEF Next, Step

\* Every step keeps the match of vfExec with the brackets of the script.
LEMMA BranchStep ==
    ASSUME BranchInv, [Next]_vars
    PROVE  BranchInv'
<1>1. CASE UNCHANGED <<script, pc, vfExec, ran, taken>>
  BY <1>1, StillMatches
<1>2. CASE Loaded
  BY <1>2, LoadMatches DEF Loaded
<1>3. CASE Quiet
  BY <1>3, QuietMatches DEF Quiet
<1>4. CASE StepIf
  <2>1. CASE Reject
    BY <1>2, <2>1, LoadedMeans
  <2>2. CASE ~Reject
    <3> DEFINE v == /\ Executing
                    /\ castToBool(Top) <=> (Current.op = "IF")
    <3>1. /\ script' = script /\ pc' = pc + 1 /\ Current.op \in {"IF", "NOTIF"}
          /\ vfExec' = Append(vfExec, v)
          /\ ran' = IF Executing THEN ran \cup {pc + 1} ELSE ran
          /\ taken' = IF v THEN taken \cup {pc + 1} ELSE taken
      BY <1>4, <2>2 DEF StepIf, Advance
    <3>2. v \in BOOLEAN
      OBVIOUS
    <3> HIDE DEF v
    <3> QED
      BY <3>1, <3>2, IfMatches
  <2> QED
    BY <2>1, <2>2
<1>5. CASE StepElse
  <2>1. CASE Reject
    BY <1>2, <2>1, LoadedMeans
  <2>2. CASE ~Reject
    BY <1>5, <2>2, ElseMatches DEF StepElse, Advance
  <2> QED
    BY <2>1, <2>2
<1>6. CASE StepEndif
  <2>1. CASE Reject
    BY <1>2, <2>1, LoadedMeans
  <2>2. CASE ~Reject
    BY <1>6, <2>2, EndifMatches DEF StepEndif, Advance
  <2> QED
    BY <2>1, <2>2
<1>7. CASE UNCHANGED vars
  BY <1>1, <1>7 DEF vars, machine
<1> QED
  BY <1>1, <1>2, <1>3, <1>4, <1>5, <1>6, <1>7, StepKinds

\* An instruction takes effect exactly when each conditional around it, as the
\* brackets of the script match, runs the branch that it is in: for any script
\* and any nesting, vfExec says what the structure of the script says
\* (interpreter.js, step, fExec and the cases of OP_IF to OP_ENDIF).
THEOREM BranchesFollowScript == Spec => []BranchesMatch
<1>1. Init => BranchInv
  <2> SUFFICES ASSUME Init PROVE BranchInv
    OBVIOUS
  <2>1. pc = 0 /\ vfExec = <<>> /\ ran = {} /\ taken = {}
    BY DEF Init
  <2>2. Enclosing(pc + 1) = {}
    <3>1. 1 .. (pc + 1) - 1 = {}
      BY <2>1
    <3> QED
      BY <3>1 DEF Enclosing
  <2>3. Brackets(<<>>)
    <3>1. <<>> \in Seq(Nat) /\ Len(<<>>) = 0 /\ 1 .. 0 = {}
      OBVIOUS
    <3> QED
      BY <2>1, <2>2, <3>1 DEF Brackets
  <2>4. BranchesMatch
    <3>1. 1 .. pc = {}
      BY <2>1
    <3> QED
      BY <3>1 DEF BranchesMatch
  <2>5. vfExec \in Seq(BOOLEAN) /\ pc \in Nat
    BY <2>1
  <2> QED
    BY <2>1, <2>3, <2>4, <2>5 DEF BranchInv
<1>2. BranchInv /\ [Next]_vars => BranchInv'
  BY BranchStep
<1>3. BranchInv => BranchesMatch
  BY DEF BranchInv
<1> QED
  BY <1>1, <1>2, <1>3, PTL DEF Spec

-----------------------------------------------------------------------------
\* Items

\* Numbers and booleans are items.
LEMMA NumType ==
    /\ \A n \in Int : Num(n) \in Atom /\ Num(n) \in Item
    /\ Empty \in Item /\ Empty \in Atom
    /\ \A b \in BOOLEAN : Bool(b) \in Item
<1>1. \A n \in Int : Num(n) \in Atom /\ Num(n) \in Item
  BY DEF Num, Atom, Item
<1> QED
  BY <1>1 DEF Empty, Bool

\* What an item holds, by its type.
LEMMA ItemFields ==
    ASSUME NEW i \in Item
    PROVE  /\ i.type = "num" => i.n \in Int
           /\ i.type = "script" => i.name \in DOMAIN Code
           /\ i.type = "hash" => i \in [type : {"hash"}, of : Atom, by : Seq(HashOps)]
           /\ i.type # "hash" => i \in Atom
BY DEF Item, Atom

\* The hash of an item is one.
LEMMA HashType ==
    ASSUME NEW i \in Item, NEW op \in HashOps
    PROVE  Hash(i, op) \in Item
<1>1. CASE i.type = "hash"
  <2>1. i \in [type : {"hash"}, of : Atom, by : Seq(HashOps)]
    BY <1>1, ItemFields
  <2>2. Append(i.by, op) \in Seq(HashOps)
    BY <2>1
  <2>3. [i EXCEPT !.by = Append(@, op)] \in [type : {"hash"}, of : Atom, by : Seq(HashOps)]
    BY <2>1, <2>2
  <2> QED
    BY <1>1, <2>3 DEF Hash, Item
<1>2. CASE i.type # "hash"
  <2>1. i \in Atom /\ <<op>> \in Seq(HashOps)
    BY <1>2, ItemFields
  <2> QED
    BY <1>2, <2>1 DEF Hash, Item
<1> QED
  BY <1>1, <1>2

\* The chunks that verifyWitnessProgram makes.
LEMMA ChunkType ==
    /\ \A o \in Ops \ {"NUM"} : Op(o) \in Chunk
    /\ \A i \in Item : Push(i) \in Chunk
<1>1. Empty \in Item /\ "PUSH" \in Ops
  BY NumType DEF Ops, PushOps
<1>2. ASSUME NEW o \in Ops \ {"NUM"} PROVE Op(o) \in Chunk
  <2>1. /\ Op(o) \in [op : Ops, item : Item, minimal : BOOLEAN]
        /\ Op(o).op = o /\ Op(o).item = Empty
    BY <1>1 DEF Op
  <2> QED
    BY <2>1 DEF Chunk
<1>3. ASSUME NEW i \in Item PROVE Push(i) \in Chunk
  <2>1. /\ Push(i) \in [op : Ops, item : Item, minimal : BOOLEAN]
        /\ Push(i).op = "PUSH"
    BY <1>1 DEF Push
  <2> QED
    BY <2>1 DEF Chunk
<1> QED
  BY <1>2, <1>3

\* What a chunk holds: only a push has data, and a small number is one.
LEMMA ChunkFields ==
    ASSUME NEW c \in Chunk
    PROVE  /\ c.op \in Ops /\ c.item \in Item /\ c.minimal \in BOOLEAN
           /\ c.op = "NUM" => \E n \in {-1} \cup 1 .. 16 : c.item = Num(n)
           /\ c.op \notin {"PUSH", "NUM"} => c.item = Empty
<1>1. c \in [op : Ops, item : Item, minimal : BOOLEAN]
  BY DEF Chunk
<1>2. /\ c.op = "NUM" => c.item \in {Num(n) : n \in {-1} \cup 1 .. 16}
      /\ c.op \notin {"PUSH", "NUM"} => c.item = Empty
  BY DEF Chunk
<1> QED
  BY <1>1, <1>2

\* fromBuffer gives a script.
LEMMA ParsedType ==
    ASSUME NEW i \in Item
    PROVE  Parsed(i) \in Seq(Chunk)
<1>1. i.type = "script" => Code[i.name] \in Seq(Chunk)
  BY ItemFields, DataAssumption
<1>2. <<>> \in Seq(Chunk) /\ <<Op("VER")>> \in Seq(Chunk)
  <2>1. "VER" \in Ops \ {"NUM"}
    BY DEF Ops, OtherOps
  <2> QED
    BY <2>1, ChunkType
<1> QED
  BY <1>1, <1>2 DEF Parsed

\* A size is a number.
LEMMA SizeType ==
    ASSUME NEW i \in Item
    PROVE  Size(i) \in Int
<1>1. i.type \in {"num", "sig", "key", "script", "blob", "hash"}
  BY DEF Item, Atom
<1> QED
  BY <1>1 DEF Size

\* A part of a sequence is one.
LEMMA PartType ==
    ASSUME NEW S, NEW s \in Seq(S), NEW m \in Nat \ {0}, NEW n \in Int, n <= Len(s)
    PROVE  SubSeq(s, m, n) \in Seq(S)
<1>1. CASE n < m
  BY <1>1
<1>2. CASE n >= m
  BY <1>2
<1> QED
  BY <1>1, <1>2

\* Its items and its length.
LEMMA PartFields ==
    ASSUME NEW S, NEW s \in Seq(S), NEW m \in Nat \ {0}, NEW n \in Nat, m <= n + 1, n <= Len(s)
    PROVE  /\ SubSeq(s, m, n) \in Seq(S) /\ Len(SubSeq(s, m, n)) = n - m + 1
           /\ \A k \in 1 .. n - m + 1 : SubSeq(s, m, n)[k] = s[m + k - 1]
OBVIOUS

\* The last item is popped.
LEMMA PopType ==
    ASSUME stack \in Seq(Item), stack # <<>>
    PROVE  Top \in Item /\ Pop \in Seq(Item) /\ Len(Pop) = Len(stack) - 1
<1>1. Len(stack) \in Nat /\ Len(stack) >= 1
  OBVIOUS
<1>2. stack[Len(stack)] \in Item
  BY <1>1
<1>3. /\ SubSeq(stack, 1, Len(stack) - 1) \in Seq(Item)
      /\ Len(SubSeq(stack, 1, Len(stack) - 1)) = Len(stack) - 1
  <2>1. PICK n \in Nat : n = Len(stack) - 1
    BY <1>1
  <2>2. SubSeq(stack, 1, n) \in Seq(Item) /\ Len(SubSeq(stack, 1, n)) = n - 1 + 1
    BY <1>1, <2>1, PartFields
  <2> QED
    BY <2>1, <2>2
<1> QED
  BY <1>2, <1>3 DEF Top, Pop

\* What takes the place of the top of the stack is made of items.
LEMMA ShuffledType ==
    ASSUME NEW op \in StackOps, NEW x \in Seq(Item), Len(x) = Arity(op)
    PROVE  Shuffled(op, x) \in Seq(Item)
<1>1. \A k \in 1 .. Len(x) : x[k] \in Item
  OBVIOUS
<1>2. \A i, j, k \in Item : /\ <<i>> \in Seq(Item) /\ <<i, j>> \in Seq(Item)
                            /\ <<i, j, k>> \in Seq(Item) /\ <<>> \in Seq(Item)
  OBVIOUS
<1>3. x \o x \in Seq(Item)
  OBVIOUS
<1>4. CASE op \in {"2DROP", "2DUP", "3DUP", "DROP", "DUP", "IFDUP"}
  BY <1>2, <1>3, <1>4 DEF Shuffled
<1>5. CASE op \in {"NIP", "OVER", "SWAP", "TUCK"}
  <2>1. Len(x) = 2
    BY <1>5 DEF Arity, UnaryOps, HashOps
  <2>2. x[1] \in Item /\ x[2] \in Item
    BY <1>1, <2>1
  <2> QED
    BY <1>2, <1>5, <2>2 DEF Shuffled
<1>6. CASE op = "ROT"
  <2>1. Len(x) = 3
    BY <1>6 DEF Arity, UnaryOps, HashOps
  <2>2. x[1] \in Item /\ x[2] \in Item /\ x[3] \in Item
    BY <1>1, <2>1
  <2> QED
    BY <1>2, <1>6, <2>2 DEF Shuffled
<1>7. CASE op \in {"2OVER", "2SWAP"}
  <2>1. Len(x) = 4
    BY <1>7 DEF Arity, UnaryOps, HashOps
  <2>2. x[1] \in Item /\ x[2] \in Item /\ x[3] \in Item /\ x[4] \in Item
    BY <1>1, <2>1
  <2>3. x \o <<x[1], x[2]>> \in Seq(Item) /\ <<x[3], x[4], x[1], x[2]>> \in Seq(Item)
    BY <2>2
  <2> QED
    BY <1>7, <2>3 DEF Shuffled
<1>8. CASE op = "2ROT"
  <2>1. Len(x) = 6
    BY <1>8 DEF Arity, UnaryOps, HashOps
  <2>2. /\ x[1] \in Item /\ x[2] \in Item /\ x[3] \in Item
        /\ x[4] \in Item /\ x[5] \in Item /\ x[6] \in Item
    BY <1>1, <2>1
  <2>3. <<x[3], x[4], x[5], x[6], x[1], x[2]>> \in Seq(Item)
    BY <2>2
  <2> QED
    BY <1>8, <2>3 DEF Shuffled
<1>9. CASE op = "SIZE"
  <2>1. Len(x) = 1
    BY <1>9 DEF Arity, UnaryOps, HashOps
  <2>2. x[1] \in Item /\ Num(Size(x[1])) \in Item
    <3>1. x[1] \in Item
      BY <1>1, <2>1
    <3> QED
      BY <3>1, SizeType, NumType
  <2> QED
    BY <1>2, <1>9, <2>2 DEF Shuffled
<1> QED
  BY <1>4, <1>5, <1>6, <1>7, <1>8, <1>9 DEF StackOps

\* The groups of instructions have none in common.
LEMMA OpsApart ==
    /\ \A o \in StackOps : o \notin HashOps \cup UnaryOps \cup BinaryOps \cup TestOps
    /\ \A o \in HashOps : o \notin StackOps \cup UnaryOps \cup BinaryOps \cup TestOps
    /\ \A o \in UnaryOps : o \notin StackOps \cup HashOps \cup BinaryOps \cup TestOps
    /\ \A o \in BinaryOps : o \notin StackOps \cup UnaryOps \cup HashOps \cup TestOps
BY DEF StackOps, HashOps, UnaryOps, BinaryOps, TestOps

\* Arithmetic gives numbers.
LEMMA ArithmeticType ==
    ASSUME NEW a \in Int, NEW b \in Int
    PROVE  /\ \A op \in UnaryOps : Unary(op, a) \in Item
           /\ \A op \in BinaryOps : Binary(op, a, b) \in Item
<1>1. \A n \in Int : Num(n) \in Item
  BY NumType
<1>2. \A c \in BOOLEAN : Bool(c) \in Item
  BY NumType
<1>3. ASSUME NEW op \in UnaryOps PROVE Unary(op, a) \in Item
  <2>1. CASE op \in {"1ADD", "1SUB", "NEGATE", "ABS"}
    BY <1>1, <2>1 DEF Unary
  <2>2. CASE op = "NOT"
    BY <1>2, <2>2 DEF Unary
  <2>3. CASE op = "0NOTEQUAL"
    BY <1>2, <2>3 DEF Unary
  <2> QED
    BY <2>1, <2>2, <2>3 DEF UnaryOps
<1>4. ASSUME NEW op \in BinaryOps PROVE Binary(op, a, b) \in Item
  <2>1. CASE op \in {"ADD", "SUB", "MIN", "MAX"}
    BY <1>1, <2>1 DEF Binary
  <2>2. CASE op \in {"BOOLAND", "BOOLOR", "NUMEQUAL", "NUMNOTEQUAL"}
    BY <1>2, <2>2 DEF Binary
  <2>3. /\ (a < b) \in BOOLEAN /\ (a > b) \in BOOLEAN
        /\ (a <= b) \in BOOLEAN /\ (a >= b) \in BOOLEAN
    OBVIOUS
  <2>4. CASE op = "LESSTHAN"
    <3>1. Binary(op, a, b) = Bool(a < b)
      BY <2>4 DEF Binary
    <3> QED
      BY <1>2, <2>3, <3>1, Zenon
  <2>5. CASE op = "GREATERTHAN"
    <3>1. Binary(op, a, b) = Bool(a > b)
      BY <2>5 DEF Binary
    <3> QED
      BY <1>2, <2>3, <3>1, Zenon
  <2>6. CASE op = "LESSTHANOREQUAL"
    <3>1. Binary(op, a, b) = Bool(a <= b)
      BY <2>6 DEF Binary
    <3> QED
      BY <1>2, <2>3, <3>1, Zenon
  <2>7. CASE op = "GREATERTHANOREQUAL"
    <3>1. Binary(op, a, b) = Bool(a >= b)
      BY <2>7 DEF Binary
    <3> QED
      BY <1>2, <2>3, <3>1, Zenon
  <2> QED
    BY <2>1, <2>2, <2>4, <2>5, <2>6, <2>7 DEF BinaryOps
<1> QED
  BY <1>3, <1>4

\* What an instruction puts in the place of its arguments is made of items.
LEMMA RewritesType ==
    ASSUME NEW op \in RewriteOps, NEW x \in Seq(Item), Len(x) = Arity(op),
           NEW y \in Rewrites(op, x)
    PROVE  y \in Seq(Item)
<1>1. \A k \in 1 .. Len(x) : x[k] \in Item
  OBVIOUS
<1>2. \A i \in Item : <<i>> \in Seq(Item)
  OBVIOUS
<1>3. <<>> \in Seq(Item)
  OBVIOUS
<1>4. \A k \in 1 .. Len(x) : IsNum(x[k]) => x[k].n \in Int
  BY LimitAssumption DEF IsNum
<1>5. \A c \in BOOLEAN : Bool(c) \in Item
  BY NumType
<1>6. CASE op \in StackOps
  BY <1>6, OpsApart, ShuffledType DEF Rewrites, TestOps
<1>7. CASE op \in HashOps
  <2>1. Len(x) = 1
    BY <1>7 DEF Arity, UnaryOps, HashOps
  <2>2. Hash(x[1], op) \in Item
    BY <1>1, <1>7, <2>1, HashType
  <2>3. Rewrites(op, x) = {<<Hash(x[1], op)>>}
    BY <1>7, OpsApart DEF Rewrites, TestOps
  <2> QED
    BY <1>2, <2>2, <2>3
<1>8. CASE op \in UnaryOps
  <2>1. Len(x) = 1
    BY <1>8 DEF Arity, UnaryOps, HashOps
  <2>2. /\ \A k \in DOMAIN x : IsNum(x[k])
        /\ y = <<Unary(op, x[1].n)>>
    <3>1. Rewrites(op, x) = IF \A k \in DOMAIN x : IsNum(x[k])
                            THEN {<<Unary(op, x[1].n)>>} ELSE {}
      BY <1>8, OpsApart DEF Rewrites, TestOps
    <3> QED
      BY <3>1
  <2>3. x[1].n \in Int
    BY <1>4, <2>1, <2>2
  <2> QED
    BY <1>2, <1>8, <2>2, <2>3, ArithmeticType
<1>9. CASE op \in BinaryOps
  <2>1. Len(x) = 2
    BY <1>9 DEF Arity, BinaryOps, UnaryOps, HashOps
  <2>2. /\ \A k \in DOMAIN x : IsNum(x[k])
        /\ y = <<Binary(op, x[1].n, x[2].n)>>
    BY <1>9, OpsApart DEF Rewrites, TestOps
  <2>3. x[1].n \in Int /\ x[2].n \in Int
    BY <1>4, <2>1, <2>2
  <2> QED
    BY <1>2, <1>9, <2>2, <2>3, ArithmeticType
<1>10. CASE op \in TestOps
  <2>1. op \notin StackOps \cup HashOps \cup UnaryOps \cup BinaryOps
    BY <1>10 DEF TestOps, StackOps, HashOps, UnaryOps, BinaryOps
  <2>2. CASE op = "WITHIN"
    <3>1. y = <<Bool(x[2].n <= x[1].n /\ x[1].n < x[3].n)>>
      BY <2>1, <2>2 DEF Rewrites
    <3>2. (x[2].n <= x[1].n /\ x[1].n < x[3].n) \in BOOLEAN
      OBVIOUS
    <3> QED
      BY <1>2, <1>5, <3>1, <3>2
  <2>3. CASE op = "EQUAL"
    <3>1. y = <<Bool(x[1] = x[2])>>
      BY <2>1, <2>3 DEF Rewrites
    <3> QED
      BY <1>2, <1>5, <3>1
  <2>4. CASE op \in {"VERIFY", "EQUALVERIFY", "NUMEQUALVERIFY"}
    <3>1. y = <<>>
      BY <2>1, <2>4 DEF Rewrites
    <3> QED
      BY <1>3, <3>1
  <2> QED
    BY <1>10, <2>2, <2>3, <2>4 DEF TestOps
<1> QED
  BY <1>6, <1>7, <1>8, <1>9, <1>10 DEF RewriteOps

-----------------------------------------------------------------------------
\* The types of the machine

\* The spend, its verdicts and its flags.
SpendOK ==
    /\ spend \in Spend
    /\ DOMAIN verdicts \subseteq spend.under
    /\ \A F \in DOMAIN verdicts : verdicts[F] \in {"accepted", "rejected", "thrown"}
    /\ flags \in spend.under \cup {{}}
    /\ phase \in Phase
    /\ phase # "idle" => flags \in spend.under

\* The stacks and the place in the script.
MachineOK ==
    /\ script \in Seq(Chunk)
    /\ pc \in 0 .. Len(script)
    /\ stack \in Seq(Item) /\ altstack \in Seq(Item)
    /\ vfExec \in Seq(BOOLEAN)
    /\ nOpCount \in 0 .. MaxOps
    /\ pbegincodehash \in 0 .. pc
    /\ ran \subseteq 1 .. pc /\ taken \subseteq ran
    /\ pc = 0 => vfExec = <<>>

MultiOK ==
    /\ multi = NoMulti \/ multi \in Multi
    /\ multi # NoMulti => phase # "idle" /\ pc > 0

\* What P2SH goes on with is the stack that an output is evaluated on, and an
\* output that takes a hash of its top is evaluated on some.
CopyOK ==
    /\ stackCopy \in Seq(Item)
    /\ phase = "scriptPubkey" /\ "P2SH" \in flags =>
          IF pc = 0 THEN stack = stackCopy
          ELSE script[1].op = "HASH160" => stackCopy # <<>>

TypeInv == SpendOK /\ MachineOK /\ MultiOK /\ CopyOK

\* A script is loaded on a stack.
LEMMA LoadTypes ==
    ASSUME NEW p \in Phase, NEW code \in Seq(Chunk), NEW st \in Seq(Item), Load(p, code, st)
    PROVE  MachineOK' /\ MultiOK'
<1>1. <<>> \in Seq(Item) /\ <<>> \in Seq(BOOLEAN) /\ 0 \in 0 .. Len(code) /\ 0 \in 0 .. 0
  OBVIOUS
<1>2. 0 \in 0 .. MaxOps
  BY LimitAssumption
<1>3. MachineOK'
  BY <1>1, <1>2 DEF Load, MachineOK
<1>4. MultiOK'
  BY DEF Load, MultiOK
<1> QED
  BY <1>3, <1>4

\* verify returns.
LEMMA ReturnTypes ==
    ASSUME SpendOK, phase # "idle", NEW v \in {"accepted", "rejected", "thrown"}, Return(v)
    PROVE  TypeInv'
<1>1. Load("idle", <<>>, <<>>) /\ flags' = {} /\ stackCopy' = <<>> /\ spend' = spend
  BY DEF Return
<1>2. "idle" \in Phase /\ <<>> \in Seq(Chunk) /\ <<>> \in Seq(Item)
  BY DEF Phase
<1>3. MachineOK' /\ MultiOK' /\ phase' = "idle"
  BY <1>1, <1>2, LoadTypes DEF Load
<1>4. verdicts' = [G \in DOMAIN verdicts \cup {flags} |-> IF G = flags THEN v ELSE verdicts[G]]
  BY DEF Return, Recorded
<1>5. /\ DOMAIN verdicts' \subseteq spend.under
      /\ \A F \in DOMAIN verdicts' : verdicts'[F] \in {"accepted", "rejected", "thrown"}
  BY <1>4 DEF SpendOK
<1>6. SpendOK'
  BY <1>1, <1>2, <1>3, <1>5 DEF SpendOK
<1>7. CopyOK'
  BY <1>1, <1>2, <1>3 DEF CopyOK
<1> QED
  BY <1>3, <1>6, <1>7 DEF TypeInv

\* So it does when a script fails.
LEMMA RejectTypes == SpendOK /\ phase # "idle" /\ Reject => TypeInv'
  BY ReturnTypes DEF Reject

\* An instruction that is read, whether it takes effect or not.
LEMMA ReadTypes ==
    ASSUME TypeInv, Reading, pc' = pc + 1,
           UNCHANGED <<spend, verdicts, flags, phase, stackCopy, script>>,
           nOpCount' \in 0 .. MaxOps,
           stack' \in Seq(Item), altstack' \in Seq(Item), vfExec' \in Seq(BOOLEAN),
           pbegincodehash' \in 0 .. pc + 1,
           multi' = NoMulti \/ multi' \in Multi,
           ran' \subseteq ran \cup {pc + 1}, taken' \subseteq ran',
           pc = 0 /\ Current.op = "HASH160" => stack # <<>>
    PROVE  TypeInv'
<1>1. pc \in Nat /\ pc < Len(script) /\ Len(script) \in Nat /\ phase # "idle"
  BY DEF TypeInv, MachineOK, Reading
<1>2. SpendOK'
  BY DEF TypeInv, SpendOK
<1>3. MachineOK'
  <2>1. pc' \in 0 .. Len(script') /\ pc' # 0
    BY <1>1
  <2>2. ran' \subseteq 1 .. pc' /\ pbegincodehash' \in 0 .. pc'
    BY <1>1 DEF TypeInv, MachineOK
  <2> QED
    BY <2>1, <2>2 DEF TypeInv, MachineOK
<1>4. MultiOK'
  BY <1>1 DEF MultiOK
<1>5. CopyOK'
  <2>1. CASE pc = 0
    <3>1. Current = script[1]
      BY <2>1 DEF Current
    <3> QED
      BY <1>1, <2>1, <3>1 DEF TypeInv, CopyOK
  <2>2. CASE pc # 0
    BY <1>1, <2>2 DEF TypeInv, CopyOK
  <2> QED
    BY <2>1, <2>2
<1> QED
  BY <1>2, <1>3, <1>4, <1>5 DEF TypeInv

\* What is read.
LEMMA CurrentType ==
    ASSUME TypeInv, Reading
    PROVE  Current \in Chunk /\ Current.op \in Ops /\ Current.item \in Item /\ Counted \in {0, 1}
<1>1. pc + 1 \in 1 .. Len(script) /\ script \in Seq(Chunk)
  BY DEF TypeInv, MachineOK, Reading
<1>2. Current \in Chunk
  BY <1>1 DEF Current
<1> QED
  BY <1>2, ChunkFields DEF Counted

\* An instruction that is counted in nOpCount as usual.
LEMMA AdvanceTypes ==
    ASSUME TypeInv, Reading, ~Unreadable, Advance,
           stack' \in Seq(Item), altstack' \in Seq(Item), vfExec' \in Seq(BOOLEAN),
           pbegincodehash' \in 0 .. pc + 1, multi' = multi,
           ran' \subseteq ran \cup {pc + 1}, taken' \subseteq ran',
           pc = 0 /\ Current.op = "HASH160" => stack # <<>>
    PROVE  TypeInv'
<1>1. nOpCount' \in 0 .. MaxOps
  <2>1. ~(nOpCount + Counted > MaxOps)
    BY DEF Unreadable
  <2>2. nOpCount \in Nat /\ Counted \in Nat /\ MaxOps \in Nat
    <3>1. nOpCount \in Nat
      BY DEF TypeInv, MachineOK
    <3>2. Counted \in Nat
      BY CurrentType
    <3>3. MaxOps \in Nat
      BY LimitAssumption
    <3> QED
      BY <3>1, <3>2, <3>3
  <2>3. nOpCount' = nOpCount + Counted
    BY DEF Advance
  <2> QED
    BY <2>1, <2>2, <2>3
<1>2. multi' = NoMulti
  BY DEF Reading
<1>3. /\ pc' = pc + 1
      /\ UNCHANGED <<spend, verdicts, flags, phase, stackCopy, script>>
  BY DEF Advance
<1> QED
  BY <1>1, <1>2, <1>3, ReadTypes

\* One that takes effect, on the stacks alone.
LEMMA ExecutedTypes ==
    ASSUME TypeInv, Reading, ~Unreadable, Executed, UNCHANGED <<vfExec, multi, taken>>,
           stack' \in Seq(Item), altstack' \in Seq(Item),
           pbegincodehash' \in {pbegincodehash, pc + 1},
           Current.op = "HASH160" => stack # <<>>
    PROVE  TypeInv'
<1>1. Advance /\ ran' = ran \cup {pc + 1} /\ taken' \subseteq ran'
  BY DEF Executed, TypeInv, MachineOK
<1>2. pbegincodehash' \in 0 .. pc + 1 /\ vfExec' \in Seq(BOOLEAN)
  BY DEF TypeInv, MachineOK
<1> QED
  BY <1>1, <1>2, AdvanceTypes

\* A script that is being read may be given up.
LEMMA GiveUp == TypeInv /\ Reading /\ Reject => TypeInv'
  BY RejectTypes DEF TypeInv, Reading

\* Before the first instruction nothing is conditional.
LEMMA FirstExecutes ==
    ASSUME TypeInv, pc = 0
    PROVE  Executing
BY DEF TypeInv, MachineOK, Executing

-----------------------------------------------------------------------------
\* The instructions

\* Those that are not read, not run or not known.
LEMMA SkippedTypes == TypeInv /\ (StepUnreadable \/ StepSkipped \/ StepBad) => TypeInv'
<1> SUFFICES ASSUME TypeInv, StepUnreadable \/ StepSkipped \/ StepBad PROVE TypeInv'
  OBVIOUS
<1>1. CASE StepUnreadable \/ StepBad
  BY <1>1, GiveUp DEF StepUnreadable, StepBad, Runs
<1>2. CASE StepSkipped
  <2>1. /\ Reading /\ ~Unreadable /\ ~Executing /\ Advance
        /\ UNCHANGED <<stack, altstack, vfExec, pbegincodehash, multi, ran, taken>>
    BY <1>2 DEF StepSkipped
  <2>2. pc # 0
    BY <2>1, FirstExecutes
  <2>3. pbegincodehash' \in 0 .. pc + 1 /\ ran' \subseteq ran \cup {pc + 1} /\ taken' \subseteq ran'
    BY <2>1 DEF TypeInv, MachineOK
  <2>4. stack' \in Seq(Item) /\ altstack' \in Seq(Item) /\ vfExec' \in Seq(BOOLEAN)
    BY <2>1 DEF TypeInv, MachineOK
  <2> QED
    BY <2>1, <2>2, <2>3, <2>4, AdvanceTypes
<1> QED
  BY <1>1, <1>2

\* Pushes.
LEMMA PushTypes == TypeInv /\ StepPush => TypeInv'
<1> SUFFICES ASSUME TypeInv, StepPush PROVE TypeInv'
  OBVIOUS
<1>1. Reading /\ ~Unreadable /\ Current.op # "HASH160"
  BY DEF StepPush, Runs
<1>2. CASE Reject
  BY <1>1, <1>2, GiveUp
<1>3. CASE ~Reject
  <2>1. /\ Executed /\ stack' = Append(stack, Current.item)
        /\ UNCHANGED <<altstack, vfExec, pbegincodehash, multi, taken>>
    BY <1>3 DEF StepPush
  <2>2. stack' \in Seq(Item) /\ altstack' \in Seq(Item)
    BY <1>1, <2>1, CurrentType DEF TypeInv, MachineOK
  <2> QED
    BY <1>1, <2>1, <2>2, ExecutedTypes
<1> QED
  BY <1>2, <1>3

\* Those on conditionals.
LEMMA ConditionalTypes == TypeInv /\ (StepIf \/ StepElse \/ StepEndif) => TypeInv'
<1> SUFFICES ASSUME TypeInv, StepIf \/ StepElse \/ StepEndif PROVE TypeInv'
  OBVIOUS
<1>1. Reading /\ ~Unreadable /\ Current.op # "HASH160"
  BY DEF StepIf, StepElse, StepEndif
<1>2. CASE Reject
  BY <1>1, <1>2, GiveUp
<1>3. /\ stack \in Seq(Item) /\ altstack \in Seq(Item) /\ vfExec \in Seq(BOOLEAN)
      /\ pbegincodehash \in 0 .. pc + 1 /\ taken \subseteq ran
  BY DEF TypeInv, MachineOK
<1>4. CASE StepIf /\ ~Reject
  <2> DEFINE v == /\ Executing
                  /\ castToBool(Top) <=> (Current.op = "IF")
  <2>1. /\ ~(Executing /\ ~Condition) /\ Advance
        /\ vfExec' = Append(vfExec, v)
        /\ stack' = IF Executing THEN Pop ELSE stack
        /\ ran' = IF Executing THEN ran \cup {pc + 1} ELSE ran
        /\ taken' = IF v THEN taken \cup {pc + 1} ELSE taken
        /\ UNCHANGED <<altstack, pbegincodehash, multi>>
    BY <1>4 DEF StepIf
  <2>2. v \in BOOLEAN
    OBVIOUS
  <2>3. v => Executing
    OBVIOUS
  <2> HIDE DEF v
  <2>4. vfExec' \in Seq(BOOLEAN)
    BY <1>3, <2>1, <2>2
  <2>5. stack' \in Seq(Item)
    <3>1. CASE Executing
      <4>1. Len(stack) >= 1
        BY <2>1, <3>1 DEF Condition
      <4>2. stack # <<>>
        BY <1>3, <4>1
      <4> QED
        BY <1>3, <2>1, <3>1, <4>2, PopType
    <3>2. CASE ~Executing
      BY <1>3, <2>1, <3>2
    <3> QED
      BY <3>1, <3>2
  <2>6. ran' \subseteq ran \cup {pc + 1} /\ taken' \subseteq ran'
    BY <1>3, <2>1, <2>3
  <2> QED
    BY <1>1, <1>3, <2>1, <2>4, <2>5, <2>6, AdvanceTypes
<1>5. CASE StepElse /\ ~Reject
  <2>1. /\ vfExec # <<>> /\ Advance
        /\ vfExec' = [vfExec EXCEPT ![Len(vfExec)] = ~@]
        /\ UNCHANGED <<stack, altstack, pbegincodehash, multi, ran, taken>>
    BY <1>5 DEF StepElse
  <2>2. vfExec' \in Seq(BOOLEAN)
    BY <1>3, <2>1
  <2> QED
    BY <1>1, <1>3, <2>1, <2>2, AdvanceTypes
<1>6. CASE StepEndif /\ ~Reject
  <2>1. /\ vfExec # <<>> /\ Advance
        /\ vfExec' = SubSeq(vfExec, 1, Len(vfExec) - 1)
        /\ UNCHANGED <<stack, altstack, pbegincodehash, multi, ran, taken>>
    BY <1>6 DEF StepEndif
  <2>2. vfExec' \in Seq(BOOLEAN)
    BY <1>3, <2>1
  <2> QED
    BY <1>1, <1>3, <2>1, <2>2, AdvanceTypes
<1> QED
  BY <1>2, <1>4, <1>5, <1>6

\* Those that replace the top of the stack.
LEMMA RewriteTypes == TypeInv /\ StepRewrite => TypeInv'
<1> SUFFICES ASSUME TypeInv, StepRewrite PROVE TypeInv'
  OBVIOUS
<1> DEFINE op == Current.op
           n == Len(stack) - Arity(op)
           x == SubSeq(stack, n + 1, Len(stack))
           after == IF n < 0 THEN {} ELSE Rewrites(op, x)
<1>1. Reading /\ ~Unreadable /\ op \in RewriteOps
  BY DEF StepRewrite, Runs
<1>2. CASE Reject
  BY <1>1, <1>2, GiveUp
<1>3. CASE ~Reject
  <2>1. /\ after # {} /\ Executed
        /\ \E y \in after : stack' = SubSeq(stack, 1, n) \o y
        /\ UNCHANGED <<altstack, vfExec, pbegincodehash, multi, taken>>
    BY <1>3 DEF StepRewrite
  <2>2. Arity(op) \in {1, 2, 3, 4, 6} /\ (op = "HASH160" => Arity(op) = 1)
    BY DEF Arity, HashOps, UnaryOps
  <2>3. stack \in Seq(Item) /\ altstack \in Seq(Item) /\ Len(stack) \in Nat
    BY DEF TypeInv, MachineOK
  <2> HIDE DEF op
  <2>4. n \in Nat /\ n <= Len(stack) /\ n + Arity(op) = Len(stack)
    BY <2>1, <2>2, <2>3
  <2>5. x \in Seq(Item) /\ Len(x) = Arity(op) /\ SubSeq(stack, 1, n) \in Seq(Item)
    BY <2>2, <2>3, <2>4, SMTT(30)
  <2>6. PICK y \in Rewrites(op, x) : stack' = SubSeq(stack, 1, n) \o y
    BY <2>1, <2>4
  <2>7. y \in Seq(Item)
    BY <1>1, <2>5, <2>6, RewritesType
  <2>8. stack' \in Seq(Item)
    BY <2>5, <2>6, <2>7
  <2>9. op = "HASH160" => stack # <<>>
    <3>1. SUFFICES ASSUME op = "HASH160", stack = <<>> PROVE FALSE
      OBVIOUS
    <3>2. Len(stack) = 0 /\ Arity(op) = 1
      BY <2>2, <3>1
    <3> QED
      BY <2>4, <3>2
  <2> QED
    BY <1>1, <2>1, <2>3, <2>8, <2>9, ExecutedTypes DEF op
<1> QED
  BY <1>2, <1>3

\* DEPTH, PICK and ROLL, and those that use the other stack.
LEMMA StackTypes ==
    TypeInv /\ (StepDepth \/ StepPick \/ StepToAlt \/ StepFromAlt) => TypeInv'
<1> SUFFICES ASSUME TypeInv, StepDepth \/ StepPick \/ StepToAlt \/ StepFromAlt PROVE TypeInv'
  OBVIOUS
<1>1. Reading /\ ~Unreadable /\ Current.op # "HASH160"
  BY DEF StepDepth, StepPick, StepToAlt, StepFromAlt, Runs
<1>2. CASE Reject
  BY <1>1, <1>2, GiveUp
<1>3. /\ stack \in Seq(Item) /\ altstack \in Seq(Item)
      /\ Len(stack) \in Nat /\ Len(altstack) \in Nat
  BY DEF TypeInv, MachineOK
<1>4. CASE StepDepth
  <2>1. /\ Executed /\ stack' = Append(stack, Num(Len(stack)))
        /\ UNCHANGED <<altstack, vfExec, pbegincodehash, multi, taken>>
    BY <1>4 DEF StepDepth
  <2>2. Num(Len(stack)) \in Item
    BY <1>3, NumType
  <2>3. stack' \in Seq(Item) /\ altstack' \in Seq(Item)
    BY <1>3, <2>1, <2>2
  <2> QED
    BY <1>1, <2>1, <2>3, ExecutedTypes
<1>5. CASE StepPick /\ ~Reject
  <2> DEFINE k == Len(Pop) - Top.n
             below == SubSeq(Pop, 1, k - 1)
             above == SubSeq(Pop, k + 1, Len(Pop))
  <2>1. /\ Len(stack) >= 2 /\ Top.n \in 0 .. Len(Pop) - 1
        /\ Executed
        /\ stack' = (IF Current.op = "PICK" THEN Pop ELSE below \o above) \o <<Pop[k]>>
        /\ UNCHANGED <<altstack, vfExec, pbegincodehash, multi, taken>>
    BY <1>5, Zenon DEF StepPick
  <2>2. stack # <<>>
    BY <1>3, <2>1
  <2>3. Pop \in Seq(Item) /\ Len(Pop) \in Nat
    BY <1>3, <2>2, PopType
  <2>4. k \in 1 .. Len(Pop)
    BY <2>1, <2>3
  <2> HIDE DEF k
  <2>5. below \in Seq(Item)
    BY <2>3, <2>4, PartType
  <2>6. above \in Seq(Item)
    BY <2>3, <2>4, PartType
  <2>7. <<Pop[k]>> \in Seq(Item)
    BY <2>3, <2>4
  <2> HIDE DEF below, above
  <2>8. below \o above \in Seq(Item)
    BY <2>5, <2>6
  <2>9. stack' \in Seq(Item) /\ altstack' \in Seq(Item)
    BY <1>3, <2>1, <2>3, <2>7, <2>8
  <2> QED
    BY <1>1, <2>1, <2>9, ExecutedTypes, SMTT(30)
<1>6. CASE StepToAlt /\ ~Reject
  <2>1. /\ stack # <<>> /\ Executed
        /\ stack' = Pop /\ altstack' = Append(altstack, Top)
        /\ UNCHANGED <<vfExec, pbegincodehash, multi, taken>>
    BY <1>6 DEF StepToAlt
  <2>2. Pop \in Seq(Item) /\ Top \in Item
    BY <1>3, <2>1, PopType
  <2>3. stack' \in Seq(Item) /\ altstack' \in Seq(Item)
    BY <1>3, <2>1, <2>2
  <2> QED
    BY <1>1, <2>1, <2>3, ExecutedTypes
<1>7. CASE StepFromAlt /\ ~Reject
  <2>1. /\ altstack # <<>> /\ Executed
        /\ stack' = Append(stack, altstack[Len(altstack)])
        /\ altstack' = SubSeq(altstack, 1, Len(altstack) - 1)
        /\ UNCHANGED <<vfExec, pbegincodehash, multi, taken>>
    BY <1>7 DEF StepFromAlt
  <2>2. altstack[Len(altstack)] \in Item
    BY <1>3, <2>1
  <2>3. stack' \in Seq(Item)
    BY <1>3, <2>1, <2>2
  <2>4. altstack' \in Seq(Item)
    BY <1>3, <2>1, PartType
  <2> QED
    BY <1>1, <2>1, <2>3, <2>4, ExecutedTypes
<1> QED
  BY <1>2, <1>4, <1>5, <1>6, <1>7

\* Those that leave the stacks.
LEMMA NopTypes == TypeInv /\ (StepTimelock \/ StepNop \/ StepCodeSeparator) => TypeInv'
<1> SUFFICES ASSUME TypeInv, StepTimelock \/ StepNop \/ StepCodeSeparator PROVE TypeInv'
  OBVIOUS
<1>1. Reading /\ ~Unreadable /\ Current.op # "HASH160"
  BY DEF StepTimelock, StepNop, StepCodeSeparator, Runs, NopOps
<1>2. CASE Reject
  BY <1>1, <1>2, GiveUp
<1>3. CASE ~Reject
  <2>1. /\ Executed /\ UNCHANGED <<stack, altstack, vfExec, multi, taken>>
        /\ pbegincodehash' \in {pbegincodehash, pc + 1}
    BY <1>3 DEF StepTimelock, StepNop, StepCodeSeparator
  <2>2. stack' \in Seq(Item) /\ altstack' \in Seq(Item)
    BY <2>1 DEF TypeInv, MachineOK
  <2> QED
    BY <1>1, <2>1, <2>2, ExecutedTypes
<1> QED
  BY <1>2, <1>3

\* CHECKSIG.
LEMMA CheckSigTypes == TypeInv /\ StepCheckSig => TypeInv'
<1> SUFFICES ASSUME TypeInv, StepCheckSig PROVE TypeInv'
  OBVIOUS
<1> DEFINE n == Len(stack)
           fSuccess == Verifies(stack[n - 1], stack[n])
           push == Current.op = "CHECKSIG"
<1>1. Reading /\ ~Unreadable /\ Current.op # "HASH160"
  BY DEF StepCheckSig, Runs
<1>2. CASE Reject
  BY <1>1, <1>2, GiveUp
<1>3. CASE ~Reject
  <2>1. /\ ~(n < 2) /\ Executed
        /\ stack' = SubSeq(stack, 1, n - 2) \o (IF push THEN <<Bool(fSuccess)>> ELSE <<>>)
        /\ UNCHANGED <<altstack, vfExec, pbegincodehash, multi, taken>>
    BY <1>3 DEF StepCheckSig
  <2>2. stack \in Seq(Item) /\ altstack \in Seq(Item) /\ n \in Nat
    BY DEF TypeInv, MachineOK
  <2>3. fSuccess \in BOOLEAN
    BY DEF Verifies
  <2>4. Bool(fSuccess) \in Item
    BY <2>3, NumType, Zenon
  <2>5. SubSeq(stack, 1, n - 2) \in Seq(Item)
    BY <2>1, <2>2, PartType
  <2> HIDE DEF fSuccess, push, n
  <2>6. <<Bool(fSuccess)>> \in Seq(Item) /\ <<>> \in Seq(Item)
    BY <2>4
  <2>7. stack' \in Seq(Item) /\ altstack' \in Seq(Item)
    BY <2>1, <2>2, <2>5, <2>6
  <2> QED
    BY <1>1, <2>1, <2>7, ExecutedTypes
<1> QED
  BY <1>2, <1>3

-----------------------------------------------------------------------------
\* The loop of CHECKMULTISIG

\* It begins with what is on the stack.
LEMMA BeginTypes == TypeInv /\ StepMultisig => TypeInv'
<1> SUFFICES ASSUME TypeInv, StepMultisig PROVE TypeInv'
  OBVIOUS
<1> DEFINE n == Len(stack)
           nKeys == stack[n].n
           m == n - 1 - nKeys
           nSigs == stack[m].n
           keys == [k \in 1 .. nKeys |-> stack[m + k]]
           sigs == [k \in 1 .. nSigs |-> stack[m - 1 - nSigs + k]]
           verify == Current.op = "CHECKMULTISIGVERIFY"
<1>1. Reading /\ ~Unreadable /\ Current.op # "HASH160"
  BY DEF StepMultisig, Runs
<1>2. CASE Reject
  BY <1>1, <1>2, GiveUp
<1>3. CASE ~Reject
  <2>1. /\ n >= 1 /\ nKeys \in 0 .. 20 /\ Fits(nKeys)
        /\ m >= 1 /\ nSigs \in 0 .. nKeys /\ m - nSigs > 1
        /\ multi' = [at |-> "trying", verify |-> verify, keys |-> keys, sigs |-> sigs,
                     nSigs |-> nSigs, nKeys |-> nKeys,
                     nSigsCount |-> nSigs, nKeysCount |-> nKeys, fSuccess |-> TRUE]
        /\ pc' = pc + 1 /\ ran' = ran \cup {pc + 1}
        /\ nOpCount' = nOpCount + 1 + nKeys
        /\ UNCHANGED <<spend, verdicts, flags, phase, stackCopy, script,
                       stack, altstack, vfExec, pbegincodehash, taken>>
    BY <1>3 DEF StepMultisig
  <2>2. stack \in Seq(Item) /\ n \in Nat /\ n = Len(stack)
    BY DEF TypeInv, MachineOK
  <2>3. /\ nOpCount \in Nat /\ MaxOps \in Nat /\ nOpCount + 1 + nKeys <= MaxOps
    BY <2>1, LimitAssumption DEF Fits, TypeInv, MachineOK
  <2>4. verify \in BOOLEAN
    OBVIOUS
  <2> HIDE DEF nKeys, nSigs, n, verify
  <2>5. nKeys \in Nat /\ nSigs \in Nat /\ nSigs <= nKeys /\ m + nKeys = n - 1 /\ m \in Int
    BY <2>1, <2>2
  <2> HIDE DEF m
  <2>6. keys \in Seq(Item)
    <3>1. \A k \in 1 .. nKeys : m + k \in 1 .. n
      BY <2>1, <2>2, <2>5
    <3>2. \A k \in 1 .. nKeys : stack[m + k] \in Item
      BY <2>2, <3>1
    <3> QED
      BY <2>5, <3>2
  <2>7. sigs \in Seq(Item)
    <3>1. \A k \in 1 .. nSigs : m - 1 - nSigs + k \in 1 .. n
      BY <2>1, <2>2, <2>5
    <3>2. \A k \in 1 .. nSigs : stack[m - 1 - nSigs + k] \in Item
      BY <2>2, <3>1
    <3> QED
      BY <2>5, <3>2
  <2> HIDE DEF keys, sigs
  <2>8. multi' \in Multi
    BY <2>1, <2>4, <2>5, <2>6, <2>7 DEF Multi
  <2>9. nOpCount' \in 0 .. MaxOps
    BY <2>1, <2>3, <2>5
  <2>10. /\ stack' \in Seq(Item) /\ altstack' \in Seq(Item) /\ vfExec' \in Seq(BOOLEAN)
         /\ pbegincodehash' \in 0 .. pc + 1
         /\ ran' \subseteq ran \cup {pc + 1} /\ taken' \subseteq ran'
    BY <2>1 DEF TypeInv, MachineOK
  <2> QED
    BY <1>1, <2>1, <2>8, <2>9, <2>10, ReadTypes
<1> QED
  BY <1>2, <1>3

\* Nothing but it, and at its end the stack, is changed by its turns.
LEMMA MultiTypes ==
    ASSUME TypeInv, multi.at = "trying",
           UNCHANGED <<spend, verdicts, flags, phase, stackCopy, script, pc, altstack,
                       vfExec, nOpCount, pbegincodehash, ran, taken>>,
           stack' \in Seq(Item), multi' = NoMulti \/ multi' \in Multi
    PROVE  TypeInv'
<1>1. multi \in Multi /\ multi # NoMulti /\ phase # "idle" /\ pc > 0
  BY DEF TypeInv, MultiOK, NoMulti
<1>2. pc # 0
  BY <1>1 DEF TypeInv, MachineOK
<1>3. SpendOK'
  BY DEF TypeInv, SpendOK
<1>4. MachineOK'
  BY DEF TypeInv, MachineOK
<1>5. MultiOK'
  BY <1>1 DEF MultiOK
<1>6. CopyOK'
  BY <1>2 DEF TypeInv, CopyOK
<1> QED
  BY <1>3, <1>4, <1>5, <1>6 DEF TypeInv

\* A verification that is in the loop may be given up.
LEMMA LoopGiveUp == TypeInv /\ multi.at = "trying" /\ Reject => TypeInv'
<1> SUFFICES ASSUME TypeInv, multi.at = "trying", Reject PROVE TypeInv'
  OBVIOUS
<1>1. SpendOK /\ phase # "idle"
  BY DEF TypeInv, MultiOK, NoMulti
<1> QED
  BY <1>1, RejectTypes

\* A turn has a key left, as there are no more signatures than keys.
LEMMA TryTypes == TypeInv /\ MultisigInv /\ TrySignature => TypeInv'
<1> SUFFICES ASSUME TypeInv, MultisigInv, TrySignature PROVE TypeInv'
  OBVIOUS
<1> DEFINE s == multi.nSigsCount
           k == multi.nKeysCount
           fOk == Verifies(multi.sigs[s], multi.keys[k])
           sLeft == s - (IF fOk THEN 1 ELSE 0)
<1>1. multi.at = "trying" /\ multi.fSuccess /\ s > 0
  BY DEF TrySignature, Trying
<1>2. CASE Reject
  BY <1>1, <1>2, LoopGiveUp
<1>3. CASE ~Reject
  <2>1. /\ multi' = [multi EXCEPT !.nSigsCount = sLeft, !.nKeysCount = k - 1,
                                  !.fSuccess = sLeft <= k - 1]
        /\ UNCHANGED <<spend, verdicts, flags, phase, stackCopy, script, pc, stack, altstack,
                       vfExec, nOpCount, pbegincodehash, ran, taken>>
    BY <1>3 DEF TrySignature, KeysAfter
  <2>2. multi \in Multi
    BY <1>1 DEF TypeInv, MultiOK, NoMulti
  <2>3. s \in Nat /\ k \in Nat /\ s <= k
    BY <1>1, <2>2 DEF MultisigInv, Multi
  <2>4. sLeft \in Nat /\ k - 1 \in Nat
    BY <1>1, <2>3
  <2>5. (sLeft <= k - 1) \in BOOLEAN
    OBVIOUS
  <2> HIDE DEF s, k, sLeft
  <2>6. multi' \in Multi
    BY <2>1, <2>2, <2>4, <2>5 DEF Multi
  <2>7. stack' \in Seq(Item)
    BY <2>1 DEF TypeInv, MachineOK
  <2> QED
    BY <1>1, <2>1, <2>6, <2>7, MultiTypes
<1> QED
  BY <1>2, <1>3

\* At its end the arguments are popped.
LEMMA FinishTypes == TypeInv /\ EndMultisig => TypeInv'
<1> SUFFICES ASSUME TypeInv, EndMultisig PROVE TypeInv'
  OBVIOUS
<1> DEFINE dummy == Len(stack) - 2 - multi.nKeys - multi.nSigs
<1>1. multi.at = "trying"
  BY DEF EndMultisig
<1>2. CASE Reject
  BY <1>1, <1>2, LoopGiveUp
<1>3. CASE ~Reject
  <2>1. /\ stack' = SubSeq(stack, 1, dummy - 1)
                     \o (IF multi.verify THEN <<>> ELSE <<Bool(multi.fSuccess)>>)
        /\ multi' = NoMulti
        /\ UNCHANGED <<spend, verdicts, flags, phase, stackCopy, script, pc, altstack,
                       vfExec, nOpCount, pbegincodehash, ran, taken>>
    BY <1>3 DEF EndMultisig
  <2>2. multi \in Multi
    BY <1>1 DEF TypeInv, MultiOK, NoMulti
  <2>3. multi.nKeys \in Nat /\ multi.nSigs \in Nat /\ multi.fSuccess \in BOOLEAN
    BY <2>2 DEF Multi
  <2>4. stack \in Seq(Item) /\ Len(stack) \in Nat
    BY DEF TypeInv, MachineOK
  <2>5. dummy - 1 \in Int /\ dummy - 1 <= Len(stack)
    BY <2>3, <2>4
  <2> HIDE DEF dummy
  <2>6. SubSeq(stack, 1, dummy - 1) \in Seq(Item)
    BY <2>4, <2>5, PartType
  <2>7. Bool(multi.fSuccess) \in Item
    BY <2>3, NumType
  <2>8. <<Bool(multi.fSuccess)>> \in Seq(Item) /\ <<>> \in Seq(Item)
    BY <2>7
  <2>9. stack' \in Seq(Item)
    BY <2>1, <2>6, <2>8
  <2> QED
    BY <1>1, <2>1, <2>9, MultiTypes
<1> QED
  BY <1>2, <1>3

-----------------------------------------------------------------------------
\* verify

\* A verification begins.
LEMMA VerifyTypes ==
    ASSUME TypeInv, NEW F \in spend.under, Verify(F)
    PROVE  TypeInv'
<1>1. /\ phase = "idle" /\ DOMAIN verdicts \subseteq spend.under /\ spend \in Spend
      /\ \A G \in DOMAIN verdicts : verdicts[G] \in {"accepted", "rejected", "thrown"}
  BY DEF Verify, TypeInv, SpendOK
<1>2. CASE /\ verdicts' = Recorded(F, "rejected")
           /\ UNCHANGED <<spend, flags, phase, stackCopy, machine>>
  <2>1. verdicts' = [G \in DOMAIN verdicts \cup {F} |-> IF G = F THEN "rejected" ELSE verdicts[G]]
    BY <1>2 DEF Recorded
  <2>2. /\ DOMAIN verdicts' \subseteq spend.under
        /\ \A G \in DOMAIN verdicts' : verdicts'[G] \in {"accepted", "rejected", "thrown"}
    BY <1>1, <2>1
  <2>3. SpendOK'
    BY <1>2, <2>2 DEF TypeInv, SpendOK
  <2>4. MachineOK' /\ MultiOK' /\ CopyOK'
    BY <1>2 DEF TypeInv, MachineOK, MultiOK, CopyOK, machine
  <2> QED
    BY <2>3, <2>4 DEF TypeInv
<1>3. CASE /\ flags' = F /\ Load("scriptSig", spend.scriptSig, <<>>)
           /\ UNCHANGED <<spend, verdicts, stackCopy>>
  <2>1. spend.scriptSig \in Seq(Chunk) /\ <<>> \in Seq(Item) /\ "scriptSig" \in Phase
    BY <1>1 DEF Spend, Phase
  <2>2. MachineOK' /\ MultiOK' /\ phase' = "scriptSig"
    BY <1>3, <2>1, LoadTypes DEF Load
  <2>3. SpendOK'
    BY <1>1, <1>3, <2>1, <2>2 DEF SpendOK
  <2>4. CopyOK'
    BY <1>3, <2>2 DEF TypeInv, CopyOK
  <2> QED
    BY <2>2, <2>3, <2>4 DEF TypeInv
<1> QED
  BY <1>2, <1>3 DEF Verify

\* The next script of a verification is evaluated.
LEMMA GoOnTypes ==
    ASSUME TypeInv, phase # "idle", NEW p \in Phase \ {"idle"}, NEW code \in Seq(Chunk),
           NEW st \in Seq(Item), Load(p, code, st), UNCHANGED <<spend, verdicts, flags>>,
           stackCopy' \in Seq(Item),
           p = "scriptPubkey" /\ "P2SH" \in flags => stackCopy' = st
    PROVE  TypeInv'
<1>1. MachineOK' /\ MultiOK' /\ phase' = p /\ pc' = 0 /\ stack' = st
  BY LoadTypes DEF Load
<1>2. SpendOK'
  BY <1>1 DEF TypeInv, SpendOK
<1>3. CopyOK'
  BY <1>1 DEF CopyOK
<1> QED
  BY <1>1, <1>2, <1>3 DEF TypeInv

\* Or there is none.
LEMMA ConcludeTypes ==
    ASSUME TypeInv, phase # "idle", NEW hadWitness \in BOOLEAN, NEW copy,
           Conclude(hadWitness, copy)
    PROVE  TypeInv'
<1> DEFINE last == IF "WITNESS" \notin flags \/ hadWitness THEN "accepted"
                   ELSE IF ~spend.hasWitness THEN "thrown"
                   ELSE IF spend.witness # <<>> THEN "rejected" ELSE "accepted"
           v == CASE "CLEANSTACK" \in flags /\ "P2SH" \notin flags -> "thrown"
                  [] "CLEANSTACK" \in flags /\ "P2SH" \in flags /\ Len(copy) # 1 -> "rejected"
                  [] OTHER -> last
<1>1. last \in {"accepted", "rejected", "thrown"}
  <2>1. CASE "WITNESS" \notin flags \/ hadWitness
    BY <2>1, Zenon
  <2>2. CASE ~("WITNESS" \notin flags \/ hadWitness)
    BY <2>2, Zenon
  <2> QED
    BY <2>1, <2>2
<1>2. Return(v)
  BY DEF Conclude
<1> HIDE DEF last
<1>3. v \in {"accepted", "rejected", "thrown"}
  BY <1>1
<1> HIDE DEF v
<1> QED
  BY <1>2, <1>3, ReturnTypes DEF TypeInv

\* verifyWitnessProgram.
LEMMA ProgramTypes ==
    ASSUME TypeInv, phase # "idle", NEW s \in Seq(Chunk), Len(s) = 2,
           NEW copy \in Seq(Item), WitnessProgram(s, copy)
    PROVE  TypeInv'
<1>1. s[2] \in Chunk
  <2>1. 2 \in 1 .. Len(s)
    OBVIOUS
  <2> QED
    BY <2>1, Z3
<1> DEFINE program == s[2].item
           w == spend.witness
<1>2. program \in Item /\ w \in Seq(Item) /\ Len(w) \in Nat
  BY <1>1, ChunkFields DEF TypeInv, SpendOK, Spend
<1>3. CASE Reject
  BY <1>3, RejectTypes DEF TypeInv
<1>4. CASE Conclude(TRUE, copy)
  BY <1>4, ConcludeTypes
<1>5. CASE Return("thrown")
  BY <1>5, ReturnTypes DEF TypeInv
<1>6. ASSUME NEW code \in Seq(Chunk), NEW st \in Seq(Item), Load("witness", code, st),
             stackCopy' = copy, UNCHANGED <<spend, verdicts, flags>>
      PROVE  TypeInv'
  <2>1. "witness" \in Phase \ {"idle"} /\ "witness" # "scriptPubkey"
    BY DEF Phase
  <2> QED
    BY <1>6, <2>1, GoOnTypes
<1>7. CASE /\ w # <<>>
           /\ Load("witness", Parsed(w[Len(w)]), SubSeq(w, 1, Len(w) - 1))
           /\ stackCopy' = copy /\ UNCHANGED <<spend, verdicts, flags>>
  <2>1. w[Len(w)] \in Item
    BY <1>2, <1>7
  <2>2. SubSeq(w, 1, Len(w) - 1) \in Seq(Item)
    BY <1>2, PartType
  <2>3. Parsed(w[Len(w)]) \in Seq(Chunk)
    BY <2>1, ParsedType
  <2> QED
    BY <1>6, <1>7, <2>2, <2>3
<1>8. CASE /\ Load("witness", <<Op("DUP"), Op("HASH160"), Push(program),
                                Op("EQUALVERIFY"), Op("CHECKSIG")>>, w)
           /\ stackCopy' = copy /\ UNCHANGED <<spend, verdicts, flags>>
  <2>1. {"DUP", "HASH160", "EQUALVERIFY", "CHECKSIG"} \subseteq Ops \ {"NUM"}
    BY DEF Ops, RewriteOps, StackOps, HashOps, TestOps, OtherOps
  <2>2. /\ Op("DUP") \in Chunk /\ Op("HASH160") \in Chunk /\ Push(program) \in Chunk
        /\ Op("EQUALVERIFY") \in Chunk /\ Op("CHECKSIG") \in Chunk
    BY <1>2, <2>1, ChunkType
  <2>3. <<Op("DUP"), Op("HASH160"), Push(program), Op("EQUALVERIFY"), Op("CHECKSIG")>>
           \in Seq(Chunk)
    BY <2>2
  <2> QED
    BY <1>2, <1>6, <1>8, <2>3
<1> DEFINE small == Size(s[2].item) \in {20, 32}
<1>9. CASE s[1].op = "NUM" /\ "DISCOURAGE_WITNESS_PROGRAM" \in flags
  BY <1>3, <1>9 DEF WitnessProgram
<1>10. CASE s[1].op = "NUM" /\ "DISCOURAGE_WITNESS_PROGRAM" \notin flags
  BY <1>4, <1>10 DEF WitnessProgram
<1>11. CASE s[1].op # "NUM" /\ ~small
  BY <1>3, <1>11 DEF WitnessProgram
<1>12. CASE s[1].op # "NUM" /\ small
  BY <1>3, <1>5, <1>7, <1>8, <1>12 DEF WitnessProgram
<1> QED
  BY <1>9, <1>10, <1>11, <1>12

\* A script that has ended is one of a verification.
LEMMA EndedIn == Ended => phase # "idle"
  BY DEF Ended

\* The end of the first script, and of one that does not evaluate.
LEMMA FirstEndTypes == TypeInv /\ (EndBad \/ EndScriptSig) => TypeInv'
<1> SUFFICES ASSUME TypeInv, EndBad \/ EndScriptSig PROVE TypeInv'
  OBVIOUS
<1>1. CASE EndBad
  BY <1>1, RejectTypes, EndedIn DEF EndBad, TypeInv
<1>2. CASE EndScriptSig
  <2>1. /\ phase = "scriptSig"
        /\ stackCopy' = IF "P2SH" \in flags THEN stack ELSE <<>>
        /\ Load("scriptPubkey", spend.scriptPubkey, stack)
        /\ UNCHANGED <<spend, verdicts, flags>>
    BY <1>2 DEF EndScriptSig
  <2>2. stack \in Seq(Item) /\ spend.scriptPubkey \in Seq(Chunk) /\ <<>> \in Seq(Item)
    BY DEF TypeInv, MachineOK, SpendOK, Spend
  <2>3. stackCopy' \in Seq(Item) /\ "scriptPubkey" \in Phase \ {"idle"}
    BY <2>1, <2>2 DEF Phase
  <2> QED
    BY <2>1, <2>2, <2>3, GoOnTypes
<1> QED
  BY <1>1, <1>2

\* At the end of an output that takes a hash, P2SH has a stack to go on with.
CopyAvailable ==
    Ended /\ phase = "scriptPubkey" /\ "P2SH" \in flags /\ isScriptHashOut(script)
        => stackCopy # <<>>

\* The types say so.
LEMMA CopyThere == TypeInv => CopyAvailable
<1> SUFFICES ASSUME TypeInv, pc = Len(script), phase = "scriptPubkey", "P2SH" \in flags,
                    Len(script) = 3, script[1].op = "HASH160"
             PROVE  stackCopy # <<>>
  BY DEF CopyAvailable, Ended, isScriptHashOut
<1>1. pc # 0
  OBVIOUS
<1> QED
  BY <1>1 DEF TypeInv, CopyOK

\* The end of the output.
LEMMA OutputEndTypes == TypeInv /\ EndScriptPubkey => TypeInv'
<1> SUFFICES ASSUME TypeInv, EndScriptPubkey PROVE TypeInv'
  OBVIOUS
<1>1. Ended /\ phase = "scriptPubkey" /\ phase # "idle"
  BY DEF EndScriptPubkey, Ended
<1>2. stackCopy \in Seq(Item) /\ Len(stackCopy) \in Nat /\ script \in Seq(Chunk)
  BY DEF TypeInv, CopyOK, MachineOK
<1>3. CASE Reject
  BY <1>1, <1>3, RejectTypes DEF TypeInv
<1>4. CASE isWitnessProgram(script) /\ WitnessProgram(script, stackCopy)
  BY <1>1, <1>2, <1>4, ProgramTypes DEF isWitnessProgram
<1>5. CASE Conclude(FALSE, stackCopy)
  BY <1>1, <1>5, ConcludeTypes
<1>6. CASE /\ "P2SH" \in flags /\ isScriptHashOut(script)
           /\ Load("redeemScript", Parsed(stackCopy[Len(stackCopy)]),
                   SubSeq(stackCopy, 1, Len(stackCopy) - 1))
           /\ stackCopy' = SubSeq(stackCopy, 1, Len(stackCopy) - 1)
           /\ UNCHANGED <<spend, verdicts, flags>>
  <2>1. stackCopy # <<>>
    BY <1>1, <1>6, CopyThere DEF CopyAvailable
  <2>2. stackCopy[Len(stackCopy)] \in Item
    BY <1>2, <2>1
  <2>3. SubSeq(stackCopy, 1, Len(stackCopy) - 1) \in Seq(Item)
    BY <1>2, PartType
  <2>4. Parsed(stackCopy[Len(stackCopy)]) \in Seq(Chunk)
    BY <2>2, ParsedType
  <2>5. "redeemScript" \in Phase \ {"idle"} /\ "redeemScript" # "scriptPubkey"
    BY DEF Phase
  <2> QED
    BY <1>1, <1>6, <2>3, <2>4, <2>5, GoOnTypes
<1> QED
  BY <1>3, <1>4, <1>5, <1>6 DEF EndScriptPubkey

\* The end of a script behind a hash, or of a witness.
LEMMA LastEndTypes == TypeInv /\ (EndRedeemScript \/ EndWitness) => TypeInv'
<1> SUFFICES ASSUME TypeInv, EndRedeemScript \/ EndWitness PROVE TypeInv'
  OBVIOUS
<1>1. phase # "idle"
  BY EndedIn DEF EndRedeemScript, EndWitness
<1>2. stack \in Seq(Item) /\ script \in Seq(Chunk)
  BY DEF TypeInv, MachineOK
<1>3. CASE Reject
  BY <1>1, <1>3, RejectTypes DEF TypeInv
<1>4. CASE isWitnessProgram(script) /\ WitnessProgram(script, stack)
  BY <1>1, <1>2, <1>4, ProgramTypes DEF isWitnessProgram
<1>5. CASE Conclude(FALSE, stack) \/ Conclude(TRUE, stackCopy)
  BY <1>1, <1>5, ConcludeTypes
<1> QED
  BY <1>3, <1>4, <1>5 DEF EndRedeemScript, EndWitness

-----------------------------------------------------------------------------

\* Every step keeps the types.
LEMMA TypeStep ==
    ASSUME TypeInv, MultisigInv, [Next]_vars
    PROVE  TypeInv'
<1>1. ASSUME NEW F \in spend.under, Verify(F) PROVE TypeInv'
  BY <1>1, VerifyTypes
<1>2. CASE Step
  BY <1>2, SkippedTypes, PushTypes, ConditionalTypes, RewriteTypes, StackTypes, NopTypes,
     CheckSigTypes, BeginTypes, TryTypes, FinishTypes DEF Step
<1>3. CASE End
  BY <1>3, FirstEndTypes, OutputEndTypes, LastEndTypes DEF End
<1>4. CASE UNCHANGED vars
  BY <1>4 DEF vars, machine, TypeInv, SpendOK, MachineOK, MultiOK, CopyOK
<1> QED
  BY <1>1, <1>2, <1>3, <1>4 DEF Next

\* The types, with what they rest on, hold throughout.
LEMMA TypesHold == Spec => []TypeInv
<1>1. Init => TypeInv
  <2> SUFFICES ASSUME Init PROVE TypeInv
    OBVIOUS
  <2>1. spend \in Spend
    BY DataAssumption DEF Init
  <2>2. /\ <<>> \in Seq(Item) /\ <<>> \in Seq(Chunk) /\ <<>> \in Seq(BOOLEAN) /\ Len(<<>>) = 0
        /\ DOMAIN <<>> = {} /\ 0 \in 0 .. MaxOps
    BY LimitAssumption
  <2>3. SpendOK
    BY <2>1, <2>2 DEF Init, SpendOK, Phase
  <2>4. MachineOK
    BY <2>2 DEF Init, MachineOK
  <2>5. MultiOK /\ CopyOK
    BY <2>2 DEF Init, MultiOK, CopyOK
  <2> QED
    BY <2>3, <2>4, <2>5 DEF TypeInv
<1>2. TypeInv /\ MultisigInv /\ [Next]_vars => TypeInv'
  BY TypeStep
<1> QED
  BY <1>1, <1>2, LoopInvariant, PTL DEF Spec

\* Every part of an Interpreter keeps its type, and nOpCount its limit, for any
\* spend and any scripts (interpreter.js, step, evaluate, verify).
THEOREM TypeCorrect == Spec => []TypeOK
<1>1. TypeInv => TypeOK
  BY DEF TypeInv, SpendOK, MachineOK, MultiOK, CopyOK, TypeOK
<1> QED
  BY <1>1, TypesHold, PTL

\* "stackCopy cannot be empty here": HASH160, the first instruction of an
\* output that takes a hash, has found an item on the stack that stackCopy is a
\* copy of (interpreter.js, verify, "internal error - stack copy empty").
THEOREM StackCopyThere == Spec => []CopyAvailable
  BY TypesHold, CopyThere, PTL

-----------------------------------------------------------------------------
\* Standard outputs.  While such a spend is verified under the standard flags,
\* the stack is at every instruction what the script that runs has made so far
\* of the stack b that it started on, and what the spend still needs to be
\* authorised is a question about that script and b alone.

\* A stack without its top item.
Front(b) == SubSeq(b, 1, Len(b) - 1)

\* The stack holds the d lowest items of b, and above them those of x.
Holds(b, d, x) ==
    /\ Len(stack) = d + Len(x)
    /\ \A k \in 1 .. d : stack[k] = b[k]
    /\ \A k \in 1 .. Len(x) : stack[d + k] = x[k]

\* What the kinds of scripts make of a stack b that they start on, up to pc.
KeyRun(b) ==
    LET n == Len(b)
    IN  \/ pc = 0 /\ Holds(b, n, <<>>)
        \/ pc = 1 /\ Holds(b, n, <<script[1].item>>)
        \/ pc = 2 /\ n >= 1 /\ Holds(b, n - 1, <<Bool(OpensKey(b, script, phase))>>)

KeyHashRun(b) ==
    LET n == Len(b)
        h == Hash(b[n], "HASH160")
    IN  \/ pc = 0 /\ Holds(b, n, <<>>)
        \/ pc = 1 /\ n >= 1 /\ Holds(b, n, <<b[n]>>)
        \/ pc = 2 /\ n >= 1 /\ Holds(b, n, <<h>>)
        \/ pc = 3 /\ n >= 1 /\ Holds(b, n, <<h, script[3].item>>)
        \/ pc = 4 /\ n >= 1 /\ h = script[3].item /\ Holds(b, n, <<>>)
        \/ pc = 5 /\ n >= 2 /\ Holds(b, n - 2, <<Bool(OpensKeyHash(b, script, phase))>>)

ScriptHashRun(b) ==
    LET n == Len(b)
        h == Hash(b[n], "HASH160")
    IN  \/ pc = 0 /\ Holds(b, n, <<>>)
        \/ pc = 1 /\ n >= 1 /\ Holds(b, n - 1, <<h>>)
        \/ pc = 2 /\ n >= 1 /\ Holds(b, n - 1, <<h, script[2].item>>)
        \/ pc = 3 /\ n >= 1 /\ Holds(b, n - 1, <<Bool(h = script[2].item)>>)

ProgramRun(b) ==
    LET n == Len(b)
    IN  \/ pc = 0 /\ Holds(b, n, <<>>)
        \/ pc = 1 /\ Holds(b, n, <<script[1].item>>)
        \/ pc = 2 /\ Holds(b, n, <<script[1].item, script[2].item>>)

\* Before OP_CHECKMULTISIG, in its loop, and after it.
MultisigPushed(b, k) ==
    LET n == Len(b)
    IN  /\ Len(stack) = n + k
        /\ \A j \in 1 .. n : stack[j] = b[j]
        /\ \A j \in 1 .. k : stack[n + j] = script[j].item
MultisigLoop(b) ==
    LET n == Len(b)
        m == script[1].item.n
        c == Len(script)
    IN  /\ multi.at = "trying" /\ ~multi.verify
        /\ m + 1 <= n /\ m <= c - 3
        /\ multi.nSigs = m /\ multi.nKeys = c - 3
        /\ \A k \in 1 .. c - 3 : multi.keys[k] = script[k + 1].item
        /\ \A k \in 1 .. m : multi.sigs[k] = b[n - m + k]
MultisigRun(b) ==
    LET n == Len(b)
        m == script[1].item.n
        c == Len(script)
    IN  \/ /\ pc < c /\ multi = NoMulti /\ nOpCount = 0
           /\ MultisigPushed(b, pc)
        \/ pc = c /\ MultisigPushed(b, c - 1) /\ MultisigLoop(b)
        \/ /\ pc = c /\ multi = NoMulti /\ m + 1 <= n
           /\ Holds(b, n - m - 1, <<Bool(OpensMultisig(b, script, phase))>>)

\* Outside of the loop, with no more instructions counted than read; and without
\* anything beside the stack: no conditional, no separator.
Straight == multi = NoMulti /\ nOpCount <= pc
Plain == altstack = <<>> /\ vfExec = <<>> /\ pbegincodehash = 0

\* Where script came from, and the stack b with it.
Source(b) ==
    CASE phase = "scriptPubkey" ->
           script = spend.scriptPubkey /\ b = Items /\ stackCopy = Items
      [] phase = "redeemScript" ->
           Items # <<>> /\ script = Parsed(Items[Len(Items)]) /\ b = Front(Items)
      [] phase = "witness" -> b \in {spend.witness, Front(spend.witness)}

\* What fromBuffer made of no script.
IsBad(c) == c = <<Op("VER")>>

\* What is left to find out for the spend to be authorised.
Pending(b) ==
    \/ /\ IsTemplate(script) /\ Opens(b, script, phase)
       /\ IF phase = "witness" THEN Len(b) = Takes(script) ELSE spend.witness = <<>>
    \/ /\ IsProgram(script) /\ b = <<>> /\ OpensWitness(script[2].item)
       /\ phase = "redeemScript" => spend.scriptSig[1].minimal
    \/ isScriptHashOut(script) /\ Redeems(Len(b))

\* The script is one of the standard kinds, and has come this far.
Kinds(b) ==
    \/ IsKeyScript(script) /\ Straight /\ KeyRun(b)
    \/ IsKeyHashScript(script) /\ Straight /\ KeyHashRun(b)
    \/ IsMultisigScript(script) /\ MultisigRun(b)
    \/ IsProgram(script) /\ Straight /\ ProgramRun(b) /\ phase # "witness"
    \/ isScriptHashOut(script) /\ Straight /\ ScriptHashRun(b) /\ phase = "scriptPubkey"
    \/ IsBad(script) /\ Straight /\ pc = 0

\* A script of the output runs on b; the input is pushed.
Running(b) ==
    /\ Plain /\ Source(b) /\ Kinds(b)
    /\ phase # "witness" => Len(b) <= MaxStack
    /\ Authorised <=> Pending(b)

Pushing ==
    /\ Plain /\ multi = NoMulti /\ nOpCount = 0
    /\ script = spend.scriptSig
    /\ Len(stack) = pc
    /\ \A k \in 1 .. pc : stack[k] = Items[k] /\ Pushed(k)

\* The stacks that scripts start on.
Bases == {Items, Front(Items), spend.witness, Front(spend.witness)}

Underway == /\ phase = "scriptSig" => Pushing
            /\ phase \in {"scriptPubkey", "redeemScript", "witness"} =>
                  \E b \in Bases : Running(b)

\* The inductive invariant behind StandardExact.
StandardInv == IsStandard =>
    /\ StandardExact
    /\ flags = StandardFlags => Underway

-----------------------------------------------------------------------------
\* What these are made of

\* The items of the input, and the stacks that a script may start on.
LEMMA ItemsType ==
    ASSUME spend \in Spend
    PROVE  /\ Items \in Seq(Item) /\ Len(Items) = Len(spend.scriptSig)
           /\ \A k \in 1 .. Len(Items) : Items[k] = spend.scriptSig[k].item
           /\ spend.scriptSig \in Seq(Chunk) /\ spend.scriptPubkey \in Seq(Chunk)
           /\ spend.witness \in Seq(Item)
<1>1. /\ spend.scriptSig \in Seq(Chunk) /\ spend.scriptPubkey \in Seq(Chunk)
      /\ spend.witness \in Seq(Item)
  BY DEF Spend
<1>2. DOMAIN spend.scriptSig = 1 .. Len(spend.scriptSig) /\ Len(spend.scriptSig) \in Nat
  BY <1>1
<1>3. \A k \in 1 .. Len(spend.scriptSig) : spend.scriptSig[k].item \in Item
  BY <1>1, ChunkFields
<1>4. Items = [k \in 1 .. Len(spend.scriptSig) |-> spend.scriptSig[k].item]
  BY <1>2 DEF Items
<1> QED
  BY <1>1, <1>2, <1>3, <1>4

\* A stack without its top.
LEMMA FrontType ==
    ASSUME NEW b \in Seq(Item)
    PROVE  /\ Front(b) \in Seq(Item)
           /\ b # <<>> => /\ Len(Front(b)) = Len(b) - 1
                          /\ \A k \in 1 .. Len(b) - 1 : Front(b)[k] = b[k]
<1>1. Front(b) \in Seq(Item)
  BY PartType DEF Front
<1>2. ASSUME b # <<>>
      PROVE  /\ Len(Front(b)) = Len(b) - 1
             /\ \A k \in 1 .. Len(b) - 1 : Front(b)[k] = b[k]
  <2>1. PICK n \in Nat : n = Len(b) - 1
    BY <1>2
  <2>2. /\ Len(SubSeq(b, 1, n)) = n - 1 + 1
        /\ \A k \in 1 .. n - 1 + 1 : SubSeq(b, 1, n)[k] = b[1 + k - 1]
    BY <2>1, PartFields
  <2>3. \A k \in 1 .. n : SubSeq(b, 1, n)[k] = b[k]
    BY <2>2
  <2> QED
    BY <2>1, <2>2, <2>3 DEF Front
<1> QED
  BY <1>1, <1>2

\* So they are stacks.
LEMMA BasesType ==
    ASSUME spend \in Spend, NEW b \in Bases
    PROVE  b \in Seq(Item)
BY ItemsType, FrontType DEF Bases

\* The last hash tells the size of a hash.
LEMMA HashSize ==
    ASSUME NEW i \in Item, NEW op \in HashOps
    PROVE  /\ Hash(i, op).type = "hash"
           /\ Size(Hash(i, op)) = IF op \in {"SHA256", "HASH256"} THEN 32 ELSE 20
<1>1. CASE i.type = "hash"
  <2>1. i \in [type : {"hash"}, of : Atom, by : Seq(HashOps)]
    BY <1>1, ItemFields
  <2>2. Hash(i, op) = [i EXCEPT !.by = Append(@, op)]
    BY <1>1 DEF Hash
  <2>3. Hash(i, op).type = "hash" /\ Hash(i, op).by = Append(i.by, op)
    BY <2>1, <2>2
  <2>4. Hash(i, op).by[Len(Hash(i, op).by)] = op
    BY <2>1, <2>3
  <2> QED
    BY <2>3, <2>4 DEF Size
<1>2. CASE i.type # "hash"
  <2>1. Hash(i, op) = [type |-> "hash", of |-> i, by |-> <<op>>]
    BY <1>2 DEF Hash
  <2>2. Hash(i, op).type = "hash" /\ Hash(i, op).by[Len(Hash(i, op).by)] = op
    BY <2>1
  <2> QED
    BY <2>2 DEF Size
<1> QED
  BY <1>1, <1>2

\* What fromBuffer makes of a hashed item is a script of the hash, or none.
LEMMA ParsedHash ==
    ASSUME NEW i \in Item, NEW op \in HashOps
    PROVE  Parsed(i) \in ScriptsOf(Hash(i, op)) \/ IsBad(Parsed(i))
<1>1. CASE i = Empty \/ i.type = "script"
  <2>1. i.type # "hash"
    BY <1>1 DEF Empty, Num
  <2>2. Hash(i, op).of = i
    BY <2>1 DEF Hash
  <2>3. i \in {Empty} \cup [type : {"script"}, name : DOMAIN Code]
    <3>1. CASE i = Empty
      BY <3>1
    <3>2. CASE i.type = "script"
      BY <3>2 DEF Item, Atom
    <3> QED
      BY <1>1, <3>1, <3>2
  <2> QED
    BY <2>2, <2>3 DEF ScriptsOf
<1>2. CASE i # Empty /\ i.type # "script"
  BY <1>2 DEF Parsed, IsBad
<1> QED
  BY <1>1, <1>2

-----------------------------------------------------------------------------
\* The instructions of standard scripts

\* One that is run, and leaves the d lowest items of the stack and x on them.
Becomes(d, x) ==
    /\ Executed /\ UNCHANGED <<altstack, vfExec, pbegincodehash, multi>>
    /\ Len(stack') = d + Len(x)
    /\ \A k \in 1 .. d : stack'[k] = stack[k]
    /\ \A k \in 1 .. Len(x) : stack'[d + k] = x[k]

Executes == /\ TypeInv /\ flags = StandardFlags
            /\ Plain /\ multi = NoMulti /\ nOpCount <= pc

\* Outside of conditionals and of the loop, an instruction is read and run.
LEMMA StepReads ==
    ASSUME Plain, multi = NoMulti, Step
    PROVE  Reading /\ Executing /\ (Unreadable => Reject)
<1>1. multi.at # "trying"
  BY DEF NoMulti
<1>2. Executing
  BY DEF Plain, Executing
<1>3. ~TrySignature /\ ~EndMultisig
  BY <1>1 DEF TrySignature, Trying, EndMultisig
<1>4. Reading /\ (Unreadable => Reject)
  <2>1. CASE StepUnreadable
    BY <2>1 DEF StepUnreadable
  <2>2. CASE StepSkipped \/ StepPush \/ StepBad \/ StepIf \/ StepElse \/ StepEndif
    BY <2>2 DEF StepSkipped, StepPush, StepBad, StepIf, StepElse, StepEndif, Runs
  <2>3. CASE StepRewrite \/ StepDepth \/ StepPick \/ StepToAlt \/ StepFromAlt \/ StepTimelock
    BY <2>3 DEF StepRewrite, StepDepth, StepPick, StepToAlt, StepFromAlt, StepTimelock, Runs
  <2>4. CASE StepNop \/ StepCodeSeparator \/ StepCheckSig \/ StepMultisig
    BY <2>4 DEF StepNop, StepCodeSeparator, StepCheckSig, StepMultisig, Runs
  <2> QED
    BY <1>3, <2>1, <2>2, <2>3, <2>4 DEF Step
<1> QED
  BY <1>2, <1>4

\* The instructions that standard scripts are made of.
Known == {"PUSH", "NUM", "DUP", "HASH160", "EQUAL", "EQUALVERIFY", "CHECKSIG",
          "CHECKMULTISIG", "VER", "RESERVED"}

\* Which action an instruction is.
LEMMA StepActs ==
    ASSUME Plain, multi = NoMulti, Step, ~Unreadable, Current.op \in Known
    PROVE  \/ StepPush /\ Current.op \in {"PUSH", "NUM"}
           \/ StepRewrite /\ Current.op \in {"DUP", "HASH160", "EQUAL", "EQUALVERIFY"}
           \/ StepCheckSig /\ Current.op = "CHECKSIG"
           \/ StepMultisig /\ Current.op = "CHECKMULTISIG"
           \/ Reject /\ Current.op \in {"VER", "RESERVED"}
<1>1. multi.at # "trying"
  BY DEF NoMulti
<1>2. Executing
  BY DEF Plain, Executing
<1>3. ~TrySignature /\ ~EndMultisig /\ ~StepUnreadable /\ ~StepSkipped
  BY <1>1, <1>2 DEF TrySignature, Trying, EndMultisig, StepUnreadable, StepSkipped
<1>4. ~StepIf /\ ~StepElse /\ ~StepEndif /\ ~StepDepth /\ ~StepPick
  BY DEF Known, StepIf, StepElse, StepEndif, StepDepth, StepPick, Runs
<1>5. ~StepToAlt /\ ~StepFromAlt /\ ~StepTimelock /\ ~StepNop /\ ~StepCodeSeparator
  BY DEF Known, StepToAlt, StepFromAlt, StepTimelock, StepNop, StepCodeSeparator, Runs, NopOps
<1>6. StepPush => Current.op \in {"PUSH", "NUM"}
  BY DEF StepPush, Runs
<1>7. StepRewrite => Current.op \in {"DUP", "HASH160", "EQUAL", "EQUALVERIFY"}
  BY DEF Known, StepRewrite, Runs, RewriteOps, UnaryOps, BinaryOps, StackOps, TestOps, HashOps
<1>8. StepCheckSig => Current.op = "CHECKSIG"
  BY DEF Known, StepCheckSig, Runs
<1>9. StepMultisig => Current.op = "CHECKMULTISIG"
  BY DEF Known, StepMultisig, Runs
<1>10. StepBad => Reject /\ Current.op \in {"VER", "RESERVED"}
  BY DEF Known, StepBad, Runs
<1> QED
  BY <1>3, <1>4, <1>5, <1>6, <1>7, <1>8, <1>9, <1>10 DEF Step

\* Only a push of too much data is refused before it is looked at: no standard
\* script is near the limit of instructions.
LEMMA StepReadable ==
    ASSUME Executes, Reading, pc < 5, Current.op \in Known, Unreadable
    PROVE  Current.item.type = "blob"
<1>1. Current.op \notin Disabled
  BY DEF Known, Disabled
<1>2. nOpCount \in Nat /\ pc \in Nat /\ MaxOps \in Nat /\ 5 <= MaxOps
  BY LimitAssumption DEF Executes, TypeInv, MachineOK
<1>3. Counted \in {0, 1}
  BY CurrentType DEF Executes
<1>4. ~(nOpCount + Counted > MaxOps)
  BY <1>2, <1>3 DEF Executes
<1> QED
  BY <1>1, <1>4 DEF Unreadable

\* What is no push has no data.
LEMMA NoData ==
    ASSUME TypeInv, Reading, Current.op \notin {"PUSH", "NUM"}
    PROVE  Current.item.type # "blob"
<1>1. Current \in Chunk
  BY CurrentType
<1> QED
  BY <1>1, ChunkFields DEF Empty, Num

\* None of the encodings is asked for.
LEMMA EncodingFree ==
    ASSUME flags = StandardFlags
    PROVE  /\ \A sig : checkSignatureEncoding(sig)
           /\ \A key : checkPubkeyEncoding(key)
BY DEF StandardFlags, checkSignatureEncoding, checkPubkeyEncoding

\* A push puts its data on the stack.
LEMMA PushDoes ==
    ASSUME TypeInv, flags = StandardFlags, Plain, multi = NoMulti, Step, ~Unreadable,
           Current.op \in {"PUSH", "NUM"}
    PROVE  Becomes(Len(stack), <<Current.item>>)
<1>1. StepPush
  BY StepActs DEF Known
<1>2. ~("MINIMALDATA" \in flags)
  BY DEF StandardFlags
<1>3. /\ Executed /\ stack' = Append(stack, Current.item)
      /\ UNCHANGED <<altstack, vfExec, pbegincodehash, multi>>
  BY <1>1, <1>2 DEF StepPush
<1>4. stack \in Seq(Item) /\ Current.item \in Item
  BY StepReads, CurrentType DEF TypeInv, MachineOK
<1>5. /\ Len(stack') = Len(stack) + 1 /\ stack'[Len(stack) + 1] = Current.item
      /\ \A k \in 1 .. Len(stack) : stack'[k] = stack[k]
  BY <1>3, <1>4
<1>6. Len(<<Current.item>>) = 1 /\ <<Current.item>>[1] = Current.item
  OBVIOUS
<1> QED
  BY <1>3, <1>5, <1>6 DEF Becomes

\* The d lowest items of a stack, and others on them.
LEMMA PartOn ==
    ASSUME NEW s \in Seq(Item), NEW d \in 0 .. Len(s), NEW x \in Seq(Item)
    PROVE  /\ Len(SubSeq(s, 1, d) \o x) = d + Len(x)
           /\ \A k \in 1 .. d : (SubSeq(s, 1, d) \o x)[k] = s[k]
           /\ \A k \in 1 .. Len(x) : (SubSeq(s, 1, d) \o x)[d + k] = x[k]
<1>1. d \in Nat /\ d <= Len(s) /\ 1 <= d + 1
  OBVIOUS
<1>2. /\ SubSeq(s, 1, d) \in Seq(Item) /\ Len(SubSeq(s, 1, d)) = d - 1 + 1
      /\ \A k \in 1 .. d - 1 + 1 : SubSeq(s, 1, d)[k] = s[1 + k - 1]
  BY <1>1, PartFields
<1>3. /\ Len(SubSeq(s, 1, d)) = d
      /\ \A k \in 1 .. d : SubSeq(s, 1, d)[k] = s[k]
  BY <1>2
<1> QED
  BY <1>1, <1>2, <1>3

\* The instructions that rewrite the top of the stack.
LEMMA RewriteDoes ==
    ASSUME TypeInv, Plain, multi = NoMulti, Step, ~Unreadable,
           Current.op \in {"DUP", "HASH160", "EQUAL", "EQUALVERIFY"},
           NEW a \in Nat, a = Arity(Current.op)
    PROVE  LET n == Len(stack) - a
               after == Rewrites(Current.op, SubSeq(stack, n + 1, Len(stack)))
           IN  /\ (n < 0 \/ after = {}) => Reject
               /\ n >= 0 /\ after # {} =>
                      \E x \in after : Becomes(n, x)
<1> DEFINE n == Len(stack) - a
           after == Rewrites(Current.op, SubSeq(stack, n + 1, Len(stack)))
<1>1. StepRewrite
  BY StepActs DEF Known
<1>2. stack \in Seq(Item) /\ Len(stack) \in Nat
  BY DEF TypeInv, MachineOK
<1>3. ASSUME n < 0 \/ after = {} PROVE Reject
  BY <1>1, <1>3 DEF StepRewrite
<1>4. ASSUME n >= 0, after # {} PROVE \E x \in after : Becomes(n, x)
  <2> DEFINE m == Len(stack) - Arity(Current.op)
             out == Rewrites(Current.op, SubSeq(stack, m + 1, Len(stack)))
  <2>1. ~(m < 0) /\ m = n /\ out = after
    BY <1>2, <1>4
  <2>2. \E x \in out : stack' = SubSeq(stack, 1, m) \o x
    BY <1>1, <1>4, <2>1, Zenon DEF StepRewrite
  <2>3. PICK x \in after : stack' = SubSeq(stack, 1, n) \o x
    BY <2>1, <2>2
  <2>4. Executed /\ UNCHANGED <<altstack, vfExec, pbegincodehash, multi>>
    BY <1>1, <1>2, <1>4 DEF StepRewrite
  <2>5. x \in Seq(Item)
    <3>1. /\ SubSeq(stack, n + 1, Len(stack)) \in Seq(Item)
          /\ Len(SubSeq(stack, n + 1, Len(stack))) = a
      <4>1. n + 1 \in Nat \ {0} /\ n + 1 <= Len(stack) + 1 /\ Len(stack) - (n + 1) + 1 = a
        BY <1>2, <1>4
      <4> QED
        BY <1>2, <4>1, PartFields
    <3>2. Current.op \in RewriteOps
      BY DEF RewriteOps, StackOps, HashOps, TestOps
    <3> QED
      BY <3>1, <3>2, RewritesType
  <2>6. n \in 0 .. Len(stack)
    BY <1>2, <1>4
  <2> QED
    BY <1>2, <2>3, <2>4, <2>5, <2>6, PartOn DEF Becomes
<1> QED
  BY <1>3, <1>4

\* The items that an instruction of arity a takes.
LEMMA LastItems ==
    ASSUME NEW s \in Seq(Item), NEW a \in 1 .. Len(s)
    PROVE  /\ SubSeq(s, Len(s) - a + 1, Len(s)) \in Seq(Item)
           /\ Len(SubSeq(s, Len(s) - a + 1, Len(s))) = a
           /\ \A k \in 1 .. a : SubSeq(s, Len(s) - a + 1, Len(s))[k] = s[Len(s) - a + k]
<1> DEFINE m == Len(s) - a + 1
<1>1. m \in Nat \ {0} /\ Len(s) \in Nat /\ m <= Len(s) + 1 /\ Len(s) - m + 1 = a
  OBVIOUS
<1>2. \A k \in 1 .. a : m + k - 1 = Len(s) - a + k
  BY <1>1
<1> HIDE DEF m
<1>3. /\ SubSeq(s, m, Len(s)) \in Seq(Item) /\ Len(SubSeq(s, m, Len(s))) = Len(s) - m + 1
      /\ \A k \in 1 .. Len(s) - m + 1 : SubSeq(s, m, Len(s))[k] = s[m + k - 1]
  BY <1>1, PartFields
<1> QED
  BY <1>1, <1>2, <1>3, SMTT(30) DEF m

\* The items of one stack on another.
LEMMA OnFields ==
    ASSUME NEW x \in Seq(Item), NEW y \in Seq(Item)
    PROVE  /\ x \o y \in Seq(Item) /\ Len(x \o y) = Len(x) + Len(y)
           /\ \A k \in 1 .. Len(x) : (x \o y)[k] = x[k]
           /\ \A k \in 1 .. Len(y) : (x \o y)[Len(x) + k] = y[k]
<1>1. x \o y \in Seq(Item) /\ Len(x \o y) = Len(x) + Len(y)
  OBVIOUS
<1>2. \A k \in 1 .. Len(x) : (x \o y)[k] = x[k]
  OBVIOUS
<1>3. \A k \in 1 .. Len(y) : (x \o y)[Len(x) + k] = y[k]
  OBVIOUS
<1> QED
  BY <1>1, <1>2, <1>3

\* One item twice.
LEMMA TwiceFields ==
    ASSUME NEW x \in Seq(Item), Len(x) = 1
    PROVE  Len(x \o x) = 2 /\ (x \o x)[1] = x[1] /\ (x \o x)[2] = x[1]
<1> DEFINE y == x \o x
<1>1. /\ Len(y) = Len(x) + Len(x)
      /\ \A k \in 1 .. Len(x) : y[k] = x[k]
      /\ \A k \in 1 .. Len(x) : y[Len(x) + k] = x[k]
  BY OnFields, Zenon
<1> HIDE DEF y
<1>2. 1 \in 1 .. Len(x)
  OBVIOUS
<1>3. y[1] = x[1] /\ y[Len(x) + 1] = x[1]
  BY <1>1, <1>2
<1>4. Len(y) = 2 /\ y[1] = x[1] /\ y[2] = x[1]
  BY <1>1, <1>3
<1> QED
  BY <1>4, Zenon DEF y

\* OP_DUP: its one item twice.
LEMMA DupDoes ==
    ASSUME TypeInv, Plain, multi = NoMulti, Step, ~Unreadable, Current.op = "DUP"
    PROVE  LET n == Len(stack)
           IN  /\ n = 0 => Reject
               /\ n > 0 => Becomes(n - 1, <<stack[n], stack[n]>>)
<1> DEFINE n == Len(stack)
           x == SubSeq(stack, n - 1 + 1, n)
<1>1. stack \in Seq(Item) /\ n \in Nat
  BY DEF TypeInv, MachineOK
<1>2. Arity("DUP") = 1
  BY DEF Arity, UnaryOps, HashOps
<1>3. Rewrites("DUP", x) = {Shuffled("DUP", x)}
  <2>1. "DUP" \in StackOps
    BY DEF StackOps
  <2> HIDE DEF x
  <2> QED
    BY <2>1 DEF Rewrites, HashOps, UnaryOps, BinaryOps, StackOps
<1>4. /\ n - 1 < 0 => Reject
      /\ n - 1 >= 0 => Becomes(n - 1, Shuffled("DUP", x))
  BY <1>2, <1>3, RewriteDoes
<1>5. ASSUME n > 0 PROVE Becomes(n - 1, <<stack[n], stack[n]>>)
  <2>1. x \in Seq(Item) /\ Len(x) = 1 /\ \A k \in 1 .. 1 : x[k] = stack[n - 1 + k]
    BY <1>1, <1>5, LastItems
  <2>2. x[1] = stack[n - 1 + 1]
    BY <2>1
  <2>3. x[1] = stack[n]
    BY <1>1, <2>2
  <2>4. Becomes(n - 1, Shuffled("DUP", x))
    BY <1>1, <1>4, <1>5
  <2> HIDE DEF x
  <2>5. Shuffled("DUP", x) = x \o x
    BY DEF Shuffled
  <2>6. Len(x \o x) = 2 /\ (x \o x)[1] = stack[n] /\ (x \o x)[2] = stack[n]
    BY <2>1, <2>3, TwiceFields
  <2> DEFINE y == x \o x
             z == <<stack[n], stack[n]>>
  <2>7. Len(y) = Len(z) /\ \A k \in 1 .. Len(z) : y[k] = z[k]
    <3>1. Len(z) = 2 /\ z[1] = stack[n] /\ z[2] = stack[n]
      OBVIOUS
    <3>2. Len(y) = 2 /\ y[1] = stack[n] /\ y[2] = stack[n]
      BY <2>6
    <3> HIDE DEF y, z
    <3>3. \A k \in 1 .. 2 : k = 1 \/ k = 2
      OBVIOUS
    <3> QED
      BY <3>1, <3>2, <3>3
  <2>8. Becomes(n - 1, y)
    BY <2>4, <2>5
  <2> HIDE DEF y, z
  <2>9. Becomes(n - 1, z)
    BY <2>7, <2>8 DEF Becomes
  <2> QED
    BY <2>9 DEF z
<1> QED
  BY <1>1, <1>4, <1>5

\* OP_HASH160: its one item, hashed.
LEMMA HashDoes ==
    ASSUME TypeInv, Plain, multi = NoMulti, Step, ~Unreadable, Current.op = "HASH160"
    PROVE  LET n == Len(stack)
           IN  /\ n = 0 => Reject
               /\ n > 0 => Becomes(n - 1, <<Hash(stack[n], "HASH160")>>)
<1> DEFINE n == Len(stack)
           x == SubSeq(stack, n - 1 + 1, n)
<1>1. stack \in Seq(Item) /\ n \in Nat
  BY DEF TypeInv, MachineOK
<1>2. Arity("HASH160") = 1
  BY DEF Arity, UnaryOps, HashOps
<1>3. Rewrites("HASH160", x) = {<<Hash(x[1], "HASH160")>>}
  <2>1. "HASH160" \in HashOps /\ "HASH160" \notin StackOps
    BY DEF HashOps, StackOps
  <2> QED
    BY <2>1 DEF Rewrites, UnaryOps, BinaryOps
<1>4. /\ n - 1 < 0 => Reject
      /\ n - 1 >= 0 => Becomes(n - 1, <<Hash(x[1], "HASH160")>>)
  BY <1>2, <1>3, RewriteDoes
<1>5. n > 0 => x[1] = stack[n]
  <2> SUFFICES ASSUME n > 0 PROVE x[1] = stack[n]
    OBVIOUS
  <2>1. \A k \in 1 .. 1 : x[k] = stack[n - 1 + k]
    BY <1>1, LastItems
  <2> QED
    BY <1>1, <2>1
<1> QED
  BY <1>1, <1>4, <1>5

\* OP_EQUAL and OP_EQUALVERIFY: whether the last two items are the same.
LEMMA EqualDoes ==
    ASSUME TypeInv, Plain, multi = NoMulti, Step, ~Unreadable,
           Current.op \in {"EQUAL", "EQUALVERIFY"}
    PROVE  LET n == Len(stack)
               same == stack[n - 1] = stack[n]
           IN  /\ n < 2 => Reject
               /\ n >= 2 /\ Current.op = "EQUAL" => Becomes(n - 2, <<Bool(same)>>)
               /\ n >= 2 /\ Current.op = "EQUALVERIFY" =>
                      IF same THEN Becomes(n - 2, <<>>) ELSE Reject
<1> DEFINE n == Len(stack)
           same == stack[n - 1] = stack[n]
           x == SubSeq(stack, n - 2 + 1, n)
<1>1. stack \in Seq(Item) /\ n \in Nat
  BY DEF TypeInv, MachineOK
<1>2. Arity(Current.op) = 2
  BY DEF Arity, UnaryOps, HashOps
<1>3. /\ Rewrites("EQUAL", x) = {<<Bool(x[1] = x[2])>>}
      /\ x[1] = x[2] => Rewrites("EQUALVERIFY", x) = {<<>>}
      /\ x[1] # x[2] => Rewrites("EQUALVERIFY", x) = {}
  BY DEF Rewrites, StackOps, HashOps, UnaryOps, BinaryOps
<1>4. /\ (n - 2 < 0 \/ Rewrites(Current.op, x) = {}) => Reject
      /\ n - 2 >= 0 /\ Rewrites(Current.op, x) # {} =>
             \E y \in Rewrites(Current.op, x) : Becomes(n - 2, y)
  BY <1>2, RewriteDoes
<1>5. n >= 2 => x[1] = stack[n - 1] /\ x[2] = stack[n]
  <2> SUFFICES ASSUME n >= 2 PROVE x[1] = stack[n - 1] /\ x[2] = stack[n]
    OBVIOUS
  <2>1. \A k \in 1 .. 2 : x[k] = stack[n - 2 + k]
    BY <1>1, LastItems
  <2>2. x[1] = stack[n - 2 + 1] /\ x[2] = stack[n - 2 + 2]
    BY <2>1
  <2> QED
    BY <1>1, <2>2
<1> HIDE DEF x
<1>6. n < 2 => Reject
  BY <1>1, <1>4
<1>7. n >= 2 /\ Current.op = "EQUAL" => Becomes(n - 2, <<Bool(same)>>)
  BY <1>1, <1>3, <1>4, <1>5
<1>8. ASSUME n >= 2, Current.op = "EQUALVERIFY"
      PROVE  IF same THEN Becomes(n - 2, <<>>) ELSE Reject
  <2>1. CASE same
    BY <1>1, <1>3, <1>4, <1>5, <1>8, <2>1, SMTT(30)
  <2>2. CASE ~same
    BY <1>1, <1>3, <1>4, <1>5, <1>8, <2>2
  <2> QED
    BY <2>1, <2>2
<1> QED
  BY <1>6, <1>7, <1>8

\* OP_CHECKSIG, where no encoding is asked for: whether the signature verifies.
LEMMA CheckSigDoes ==
    ASSUME TypeInv, flags = StandardFlags, Plain, multi = NoMulti, Step, ~Unreadable,
           Current.op = "CHECKSIG"
    PROVE  LET n == Len(stack)
           IN  /\ n < 2 => Reject
               /\ n >= 2 => Becomes(n - 2, <<Bool(Verifies(stack[n - 1], stack[n]))>>)
<1> DEFINE n == Len(stack)
           ok == Verifies(stack[n - 1], stack[n])
<1>1. stack \in Seq(Item) /\ n \in Nat
  BY DEF TypeInv, MachineOK
<1>2. StepCheckSig
  BY StepActs DEF Known
<1>3. "NULLFAIL" \notin flags
  BY DEF StandardFlags
<1>4. n < 2 => Reject
  BY <1>2 DEF StepCheckSig
<1>5. ASSUME n >= 2 PROVE Becomes(n - 2, <<Bool(ok)>>)
  <2>1. ok \in BOOLEAN
    BY DEF Verifies
  <2>2. /\ checkSignatureEncoding(stack[n - 1]) /\ checkPubkeyEncoding(stack[n])
        /\ ~(n < 2)
    BY <1>1, <1>5, EncodingFree
  <2> HIDE DEF ok
  <2>3. /\ Executed /\ UNCHANGED <<altstack, vfExec, pbegincodehash, multi>>
        /\ stack' = SubSeq(stack, 1, n - 2) \o <<Bool(ok)>>
    BY <1>2, <1>3, <2>2 DEF StepCheckSig, ok
  <2>4. n - 2 \in 0 .. Len(stack) /\ <<Bool(ok)>> \in Seq(Item) /\ stack \in Seq(Item)
    BY <1>1, <1>5, <2>1, NumType
  <2> QED
    BY <2>3, <2>4, PartOn DEF Becomes
<1> QED
  BY <1>4, <1>5

-----------------------------------------------------------------------------
\* How the runs of the templates go on

\* What an instruction that is run leaves alone.
Kept == UNCHANGED <<spend, verdicts, flags, phase, stackCopy, script>> /\ Plain'

\* An instruction of a script without conditionals leaves it at the next one.
LEMMA BecomesKeeps ==
    ASSUME Executes, Reading, NEW d, NEW x, Becomes(d, x)
    PROVE  Kept /\ Straight' /\ pc' = pc + 1
<1>1. /\ UNCHANGED <<spend, verdicts, flags, phase, stackCopy, script>>
      /\ UNCHANGED <<altstack, vfExec, pbegincodehash, multi>>
      /\ pc' = pc + 1 /\ nOpCount' = nOpCount + Counted
  BY DEF Becomes, Executed, Advance
<1>2. Counted \in {0, 1} /\ nOpCount \in Nat /\ pc \in Nat
  BY CurrentType DEF Executes, TypeInv, MachineOK
<1>3. multi' = NoMulti /\ nOpCount' <= pc'
  BY <1>1, <1>2 DEF Executes
<1>4. Plain'
  BY <1>1 DEF Executes, Plain
<1> QED
  BY <1>1, <1>3, <1>4 DEF Kept, Straight

\* One or two items more, and all the others as they were.
LEMMA BecomesFew ==
    ASSUME NEW d \in Nat
    PROVE  /\ Becomes(d, <<>>) => /\ Len(stack') = d
                                  /\ \A k \in 1 .. d : stack'[k] = stack[k]
           /\ \A x : Becomes(d, <<x>>) =>
                  /\ Len(stack') = d + 1 /\ stack'[d + 1] = x
                  /\ \A k \in 1 .. d : stack'[k] = stack[k]
           /\ \A x, y : Becomes(d, <<x, y>>) =>
                  /\ Len(stack') = d + 2 /\ stack'[d + 1] = x /\ stack'[d + 2] = y
                  /\ \A k \in 1 .. d : stack'[k] = stack[k]
<1>1. Len(<<>>) = 0 /\ 1 .. 0 = {} /\ 1 .. 1 = {1} /\ 1 .. 2 = {1, 2}
  OBVIOUS
<1>2. ASSUME NEW x PROVE Len(<<x>>) = 1 /\ <<x>>[1] = x
  OBVIOUS
<1>3. ASSUME NEW x, NEW y PROVE Len(<<x, y>>) = 2 /\ <<x, y>>[1] = x /\ <<x, y>>[2] = y
  OBVIOUS
<1> QED
  BY <1>1, <1>2, <1>3 DEF Becomes

\* Where no separator was, a signature is for the script that is evaluated.
LEMMA VerifiesHere ==
    ASSUME Plain, NEW sig, NEW key
    PROVE  Verifies(sig, key) <=> SignedFor(sig, key, phase)
BY DEF Plain, Verifies, SignedFor

\* A script to a key.
LEMMA KeyStep ==
    ASSUME Executes, Step, IsKeyScript(script), NEW b \in Seq(Item), KeyRun(b)
    PROVE  \/ Kept /\ Straight' /\ KeyRun(b)'
           \/ Reject /\ ~OpensKey(b, script, phase)
<1> DEFINE n == Len(b)
<1>1. /\ Reading /\ Executing /\ pc \in Nat /\ n \in Nat /\ pc < 2 /\ Len(script) = 2
      /\ (Unreadable => Reject)
  <2>1. Reading /\ Executing /\ (Unreadable => Reject)
    BY StepReads DEF Executes
  <2> QED
    BY <2>1 DEF Executes, TypeInv, MachineOK, Reading, IsKeyScript
<1>2. CASE pc = 0
  <2>1. Current = script[1] /\ Current.op = "PUSH"
    BY <1>2 DEF Current, IsKeyScript
  <2>2. Holds(b, n, <<>>)
    BY <1>2 DEF KeyRun
  <2>3. CASE Unreadable
    <3>1. script[1].item.type = "blob"
      BY <1>1, <2>1, <2>3, StepReadable DEF Known
    <3>2. ~OpensKey(b, script, phase)
      BY <3>1 DEF OpensKey, SignedFor
    <3> QED
      BY <1>1, <2>3, <3>2
  <2>4. CASE ~Unreadable
    <3>1. Len(stack) = n /\ \A k \in 1 .. n : stack[k] = b[k]
      BY <1>1, <2>2 DEF Holds
    <3>2. Becomes(n, <<script[1].item>>)
      BY <2>1, <2>4, <3>1, PushDoes DEF Executes
    <3>3. PICK x : x = script[1].item
      OBVIOUS
    <3>4. Kept /\ Straight' /\ pc' = 1
      BY <1>1, <1>2, <3>2, BecomesKeeps
    <3>5. Holds(b, n, <<x>>)'
      BY <1>1, <3>1, <3>2, <3>3, BecomesFew DEF Holds
    <3>6. Holds(b, n, <<script[1].item>>)'
      BY <3>3, <3>4, <3>5 DEF Kept, Holds
    <3> QED
      BY <3>4, <3>6 DEF KeyRun
  <2> QED
    BY <2>3, <2>4
<1>3. CASE pc = 1
  <2>1. Current = script[2] /\ Current.op = "CHECKSIG"
    BY <1>3 DEF Current, IsKeyScript
  <2>2. Holds(b, n, <<script[1].item>>)
    BY <1>3 DEF KeyRun
  <2>3. ~Unreadable
    BY <1>1, <1>3, <2>1, StepReadable, NoData DEF Known, Executes
  <2>4. /\ Len(stack) = n + 1 /\ stack[n + 1] = script[1].item
        /\ \A k \in 1 .. n : stack[k] = b[k]
    BY <1>1, <2>2 DEF Holds
  <2>5. CASE n = 0
    <3>1. Reject
      BY <1>1, <2>1, <2>3, <2>4, <2>5, CheckSigDoes DEF Executes
    <3> QED
      BY <2>5, <3>1 DEF OpensKey
  <2>6. CASE n >= 1
    <3> DEFINE ok == OpensKey(b, script, phase)
    <3>1. Verifies(stack[n], stack[n + 1]) <=> SignedFor(b[n], script[1].item, phase)
      BY <1>1, <2>4, <2>6, VerifiesHere DEF Executes
    <3>2. Verifies(stack[n], stack[n + 1]) = ok
      <4>1. Verifies(stack[n], stack[n + 1]) \in BOOLEAN /\ ok \in BOOLEAN
        BY DEF Verifies, OpensKey
      <4>2. Verifies(stack[n], stack[n + 1]) <=> ok
        BY <2>6, <3>1 DEF OpensKey
      <4> QED
        BY <4>1, <4>2
    <3>3. Becomes(n + 1 - 2, <<Bool(Verifies(stack[n + 1 - 1], stack[n + 1]))>>)
      BY <1>1, <2>1, <2>3, <2>4, <2>6, CheckSigDoes DEF Executes
    <3> HIDE DEF ok
    <3>4. n + 1 - 2 = n - 1 /\ n + 1 - 1 = n /\ n - 1 \in Nat
      BY <1>1, <2>6
    <3>5. Becomes(n - 1, <<Bool(ok)>>)
      BY <3>2, <3>3, <3>4
    <3>6. Kept /\ Straight' /\ pc' = 2
      BY <1>1, <1>3, <3>5, BecomesKeeps
    <3>7. PICK x : x = Bool(ok)
      OBVIOUS
    <3>8. x = Bool(OpensKey(b, script, phase))'
      BY <3>6, <3>7 DEF Kept, OpensKey, SignedFor, Bool, ok
    <3>9. Holds(b, n - 1, <<x>>)'
      <4>1. /\ Len(stack') = n - 1 + 1 /\ stack'[n - 1 + 1] = x
            /\ \A k \in 1 .. n - 1 : stack'[k] = stack[k]
        BY <3>4, <3>5, <3>7, BecomesFew
      <4>2. \A k \in 1 .. n - 1 : stack'[k] = b[k]
        BY <1>1, <2>4, <4>1
      <4>3. Len(<<x>>) = 1 /\ <<x>>[1] = x /\ 1 .. 1 = {1}
        OBVIOUS
      <4> QED
        BY <4>1, <4>2, <4>3 DEF Holds
    <3>10. Holds(b, n - 1, <<Bool(OpensKey(b, script, phase))>>)'
      BY <3>8, <3>9 DEF Holds
    <3> QED
      BY <2>6, <3>6, <3>10 DEF KeyRun
  <2> QED
    BY <1>1, <2>5, <2>6
<1> QED
  BY <1>1, <1>2, <1>3

\* A script to the hash of a key.
LEMMA KeyHashStep ==
    ASSUME Executes, Step, IsKeyHashScript(script), NEW b \in Seq(Item), KeyHashRun(b)
    PROVE  \/ Kept /\ Straight' /\ KeyHashRun(b)'
           \/ Reject /\ ~OpensKeyHash(b, script, phase)
<1> DEFINE n == Len(b)
           h == Hash(b[n], "HASH160")
           opens == OpensKeyHash(b, script, phase)
<1>1. /\ Reading /\ Executing /\ pc \in Nat /\ n \in Nat /\ pc < 5 /\ Len(script) = 5
      /\ (Unreadable => Reject) /\ TypeInv /\ flags = StandardFlags /\ Plain /\ multi = NoMulti
  <2>1. Reading /\ Executing /\ (Unreadable => Reject)
    BY StepReads DEF Executes
  <2> QED
    BY <2>1 DEF Executes, TypeInv, MachineOK, Reading, IsKeyHashScript
<1>2. Current = script[pc + 1]
  BY DEF Current
<1>3. /\ script[1].op = "DUP" /\ script[2].op = "HASH160" /\ script[3].op = "PUSH"
      /\ script[4].op = "EQUALVERIFY" /\ script[5].op = "CHECKSIG"
  BY DEF IsKeyHashScript
<1>4. ASSUME pc # 2 PROVE Current.op \in Known \ {"PUSH", "NUM"} /\ ~Unreadable
  <2>1. pc = 0 \/ pc = 1 \/ pc = 3 \/ pc = 4
    BY <1>1, <1>4
  <2>2. Current.op \in Known \ {"PUSH", "NUM"}
    BY <1>2, <1>3, <2>1 DEF Known
  <2> QED
    BY <1>1, <2>2, StepReadable, NoData
<1>5. ASSUME n >= 1 PROVE b[n] \in Item /\ h.type = "hash"
  <2>1. b[n] \in Item
    BY <1>1, <1>5
  <2> QED
    BY <2>1, HashSize DEF HashOps
<1>6. n < 2 => ~opens
  BY <1>1 DEF OpensKeyHash
<1> HIDE DEF h, opens
<1>7. CASE pc = 0
  <2>1. Len(stack) = n /\ \A k \in 1 .. n : stack[k] = b[k]
    BY <1>1, <1>7 DEF KeyHashRun, Holds
  <2>2. CASE n = 0
    <3>1. Reject
      BY <1>1, <1>2, <1>3, <1>4, <1>7, <2>1, <2>2, DupDoes
    <3> QED
      BY <1>6, <2>2, <3>1 DEF opens
  <2>3. CASE n >= 1
    <3>1. Becomes(n - 1, <<b[n], b[n]>>)
      <4>1. Current.op = "DUP" /\ ~Unreadable /\ Len(stack) > 0
        BY <1>1, <1>2, <1>3, <1>4, <1>7, <2>1, <2>3
      <4>2. Becomes(Len(stack) - 1, <<stack[Len(stack)], stack[Len(stack)]>>)
        BY <1>1, <4>1, DupDoes
      <4>3. stack[Len(stack)] = b[n] /\ Len(stack) - 1 = n - 1
        BY <1>1, <2>1, <2>3
      <4> QED
        BY <4>2, <4>3
    <3>2. Kept /\ Straight' /\ pc' = 1
      BY <1>1, <1>7, <3>1, BecomesKeeps
    <3>3. PICK x : x = b[n]
      OBVIOUS
    <3>4. n - 1 \in Nat
      BY <1>1, <2>3
    <3>5. /\ Len(stack') = n + 1 /\ stack'[n] = x /\ stack'[n + 1] = x
          /\ \A k \in 1 .. n - 1 : stack'[k] = b[k]
      BY <1>1, <2>1, <3>1, <3>3, <3>4 DEF Becomes
    <3>6. \A k \in 1 .. n : stack'[k] = b[k]
      <4>1. \A k \in 1 .. n : k \in 1 .. n - 1 \/ k = n
        BY <1>1
      <4> QED
        BY <3>3, <3>5, <4>1
    <3>7. Holds(b, n, <<b[n]>>)'
      BY <1>1, <3>3, <3>5, <3>6 DEF Holds
    <3> QED
      BY <2>3, <3>2, <3>7 DEF KeyHashRun
  <2> QED
    BY <1>1, <2>2, <2>3
<1>8. CASE pc = 1
  <2>1. /\ n >= 1 /\ Len(stack) = n + 1 /\ stack[n + 1] = b[n]
        /\ \A k \in 1 .. n : stack[k] = b[k]
    BY <1>1, <1>8 DEF KeyHashRun, Holds
  <2>2. Becomes(n, <<h>>)
    <3>1. Becomes(n + 1 - 1, <<Hash(stack[n + 1], "HASH160")>>)
      BY <1>1, <1>2, <1>3, <1>4, <1>8, <2>1, HashDoes
    <3> QED
      BY <1>1, <2>1, <3>1 DEF h
  <2>3. Kept /\ Straight' /\ pc' = 2
    BY <1>1, <1>8, <2>2, BecomesKeeps
  <2>4. /\ Len(stack') = n + 1 /\ stack'[n + 1] = h
        /\ \A k \in 1 .. n : stack'[k] = b[k]
    BY <1>1, <2>1, <2>2 DEF Becomes
  <2>5. Holds(b, n, <<Hash(b[n], "HASH160")>>)'
    BY <1>1, <2>4 DEF Holds, h
  <2> QED
    BY <2>1, <2>3, <2>5 DEF KeyHashRun
<1>9. CASE pc = 2
  <2>1. /\ n >= 1 /\ Len(stack) = n + 1 /\ stack[n + 1] = h
        /\ \A k \in 1 .. n : stack[k] = b[k]
    BY <1>1, <1>9 DEF KeyHashRun, Holds, h
  <2>2. Current = script[3] /\ Current.op = "PUSH"
    BY <1>2, <1>3, <1>9
  <2>3. CASE Unreadable
    <3>1. script[3].item.type = "blob"
      BY <1>1, <2>2, <2>3, StepReadable DEF Known
    <3>2. ~opens
      BY <1>1, <1>5, <2>1, <3>1 DEF OpensKeyHash, opens, h
    <3> QED
      BY <1>1, <2>3, <3>2 DEF opens
  <2>4. CASE ~Unreadable
    <3>1. Becomes(n + 1, <<script[3].item>>)
      BY <1>1, <2>1, <2>2, <2>4, PushDoes
    <3>2. Kept /\ Straight' /\ pc' = 3
      BY <1>1, <1>9, <3>1, BecomesKeeps
    <3>3. PICK x : x = script[3].item
      OBVIOUS
    <3>4. n + 1 \in Nat
      BY <1>1
    <3>5. /\ Len(stack') = n + 2 /\ stack'[n + 1] = h /\ stack'[n + 2] = x
          /\ \A k \in 1 .. n : stack'[k] = b[k]
      BY <1>1, <2>1, <3>1, <3>3, <3>4 DEF Becomes
    <3>6. Holds(b, n, <<Hash(b[n], "HASH160"), script[3].item>>)'
      BY <1>1, <3>2, <3>3, <3>5 DEF Holds, h, Kept
    <3> QED
      BY <2>1, <3>2, <3>6 DEF KeyHashRun
  <2> QED
    BY <2>3, <2>4
<1>10. CASE pc = 3
  <2>1. /\ n >= 1 /\ Len(stack) = n + 2 /\ stack[n + 1] = h /\ stack[n + 2] = script[3].item
        /\ \A k \in 1 .. n : stack[k] = b[k]
    BY <1>1, <1>10 DEF KeyHashRun, Holds, h
  <2>2. Current.op = "EQUALVERIFY" /\ ~Unreadable
    BY <1>1, <1>2, <1>3, <1>4, <1>10
  <2>3. CASE h = script[3].item
    <3>1. Becomes(n, <<>>)
      <4>1. Becomes(n + 2 - 2, <<>>)
        BY <1>1, <2>1, <2>2, <2>3, EqualDoes
      <4> QED
        BY <1>1, <4>1
    <3>2. Kept /\ Straight' /\ pc' = 4
      BY <1>1, <1>10, <3>1, BecomesKeeps
    <3>3. Len(stack') = n /\ \A k \in 1 .. n : stack'[k] = b[k]
      BY <1>1, <2>1, <3>1 DEF Becomes
    <3>4. Holds(b, n, <<>>)'
      BY <1>1, <3>3 DEF Holds
    <3> QED
      BY <2>1, <2>3, <3>2, <3>4 DEF KeyHashRun, Kept, h
  <2>4. CASE h # script[3].item
    <3>1. Reject
      BY <1>1, <2>1, <2>2, <2>4, EqualDoes
    <3> QED
      BY <2>4, <3>1 DEF OpensKeyHash, h
  <2> QED
    BY <2>3, <2>4
<1>11. CASE pc = 4
  <2>1. /\ n >= 1 /\ h = script[3].item /\ Len(stack) = n
        /\ \A k \in 1 .. n : stack[k] = b[k]
    BY <1>1, <1>11 DEF KeyHashRun, Holds, h
  <2>2. Current.op = "CHECKSIG" /\ ~Unreadable
    BY <1>1, <1>2, <1>3, <1>4, <1>11
  <2>3. CASE n < 2
    <3>1. Reject
      BY <1>1, <2>1, <2>2, <2>3, CheckSigDoes
    <3> QED
      BY <1>6, <2>3, <3>1 DEF opens
  <2>4. CASE n >= 2
    <3>1. Verifies(stack[n - 1], stack[n]) = opens
      <4>1. Verifies(stack[n - 1], stack[n]) \in BOOLEAN /\ opens \in BOOLEAN
        BY DEF Verifies, OpensKeyHash, opens
      <4>2. Verifies(stack[n - 1], stack[n]) <=> SignedFor(b[n - 1], b[n], phase)
        BY <1>1, <2>1, <2>4, VerifiesHere
      <4>3. opens <=> SignedFor(b[n - 1], b[n], phase)
        BY <2>1, <2>4 DEF OpensKeyHash, opens, h
      <4> QED
        BY <4>1, <4>2, <4>3
    <3>2. Becomes(n - 2, <<Bool(opens)>>)
      BY <1>1, <2>1, <2>2, <2>4, <3>1, CheckSigDoes
    <3>3. Kept /\ Straight' /\ pc' = 5
      BY <1>1, <1>11, <3>2, BecomesKeeps
    <3>4. PICK x : x = Bool(opens)
      OBVIOUS
    <3>5. x = Bool(OpensKeyHash(b, script, phase))'
      BY <3>3, <3>4 DEF Kept, OpensKeyHash, SignedFor, Bool, opens
    <3>6. n - 2 \in Nat
      BY <1>1, <2>4
    <3>7. Len(stack') = n - 2 + 1 /\ stack'[n - 1] = x /\ \A k \in 1 .. n - 2 : stack'[k] = b[k]
      BY <1>1, <2>1, <3>2, <3>4, <3>6 DEF Becomes
    <3>8. Holds(b, n - 2, <<Bool(OpensKeyHash(b, script, phase))>>)'
      BY <1>1, <3>5, <3>6, <3>7 DEF Holds
    <3> QED
      BY <2>4, <3>3, <3>8 DEF KeyHashRun
  <2> QED
    BY <1>1, <2>3, <2>4
<1> QED
  BY <1>1, <1>7, <1>8, <1>9, <1>10, <1>11

\* An output to the hash of a script.
LEMMA ScriptHashStep ==
    ASSUME Executes, Step, isScriptHashOut(script), NEW b \in Seq(Item), ScriptHashRun(b)
    PROVE  \/ Kept /\ Straight' /\ ScriptHashRun(b)'
           \/ Reject /\ b = <<>>
<1> DEFINE n == Len(b)
           h == Hash(b[n], "HASH160")
<1>1. /\ Reading /\ Executing /\ pc \in Nat /\ n \in Nat /\ pc < 3 /\ Len(script) = 3
      /\ (Unreadable => Reject) /\ TypeInv /\ flags = StandardFlags /\ Plain /\ multi = NoMulti
  <2>1. Reading /\ Executing /\ (Unreadable => Reject)
    BY StepReads DEF Executes
  <2> QED
    BY <2>1 DEF Executes, TypeInv, MachineOK, Reading, isScriptHashOut
<1>2. Current = script[pc + 1]
  BY DEF Current
<1>3. /\ script[1].op = "HASH160" /\ script[2].op = "PUSH" /\ script[3].op = "EQUAL"
      /\ script[2].item.type # "blob"
  BY DEF isScriptHashOut, Size
<1>4. Current.op \in Known /\ ~Unreadable
  <2>1. pc = 0 \/ pc = 1 \/ pc = 2
    BY <1>1
  <2>2. Current.op \in Known
    BY <1>2, <1>3, <2>1 DEF Known
  <2>3. Current.item.type # "blob"
    BY <1>1, <1>2, <1>3, <2>1, NoData
  <2> QED
    BY <1>1, <2>2, <2>3, StepReadable
<1> HIDE DEF h
<1>5. CASE pc = 0
  <2>1. Len(stack) = n /\ \A k \in 1 .. n : stack[k] = b[k]
    BY <1>1, <1>5 DEF ScriptHashRun, Holds
  <2>2. Current.op = "HASH160"
    BY <1>2, <1>3, <1>5
  <2>3. CASE n = 0
    BY <1>1, <1>4, <2>1, <2>2, <2>3, HashDoes
  <2>4. CASE n >= 1
    <3>1. Becomes(n - 1, <<h>>)
      <4>1. Becomes(Len(stack) - 1, <<Hash(stack[Len(stack)], "HASH160")>>)
        BY <1>1, <1>4, <2>1, <2>2, <2>4, HashDoes
      <4>2. stack[Len(stack)] = b[n] /\ Len(stack) - 1 = n - 1
        BY <1>1, <2>1, <2>4
      <4> QED
        BY <4>1, <4>2 DEF h
    <3>2. Kept /\ Straight' /\ pc' = 1
      BY <1>1, <1>5, <3>1, BecomesKeeps
    <3>3. n - 1 \in Nat
      BY <1>1, <2>4
    <3>4. /\ Len(stack') = n /\ stack'[n] = h
          /\ \A k \in 1 .. n - 1 : stack'[k] = b[k]
      BY <1>1, <2>1, <3>1, <3>3 DEF Becomes
    <3>5. Holds(b, n - 1, <<Hash(b[n], "HASH160")>>)'
      BY <1>1, <3>4 DEF Holds, h
    <3> QED
      BY <2>4, <3>2, <3>5 DEF ScriptHashRun
  <2> QED
    BY <1>1, <2>3, <2>4
<1>6. CASE pc = 1
  <2>1. /\ n >= 1 /\ Len(stack) = n /\ stack[n] = h
        /\ \A k \in 1 .. n - 1 : stack[k] = b[k]
    BY <1>1, <1>6 DEF ScriptHashRun, Holds, h
  <2>2. Current = script[2] /\ Current.op = "PUSH"
    BY <1>2, <1>3, <1>6
  <2>3. Becomes(n, <<script[2].item>>)
    BY <1>1, <1>4, <2>1, <2>2, PushDoes
  <2>4. Kept /\ Straight' /\ pc' = 2
    BY <1>1, <1>6, <2>3, BecomesKeeps
  <2>5. PICK x : x = script[2].item
    OBVIOUS
  <2>6. /\ Len(stack') = n + 1 /\ stack'[n] = h /\ stack'[n + 1] = x
        /\ \A k \in 1 .. n - 1 : stack'[k] = b[k]
    BY <1>1, <2>1, <2>3, <2>5 DEF Becomes
  <2>7. Holds(b, n - 1, <<Hash(b[n], "HASH160"), script[2].item>>)'
    BY <1>1, <2>1, <2>4, <2>5, <2>6 DEF Holds, h, Kept
  <2> QED
    BY <2>1, <2>4, <2>7 DEF ScriptHashRun
<1>7. CASE pc = 2
  <2>1. /\ n >= 1 /\ Len(stack) = n + 1 /\ stack[n] = h /\ stack[n + 1] = script[2].item
        /\ \A k \in 1 .. n - 1 : stack[k] = b[k]
    BY <1>1, <1>7 DEF ScriptHashRun, Holds, h
  <2>2. Current.op = "EQUAL"
    BY <1>2, <1>3, <1>7
  <2>3. PICK same : same = (h = script[2].item)
    OBVIOUS
  <2>4. Becomes(n - 1, <<Bool(same)>>)
    <3>1. Becomes(n + 1 - 2, <<Bool(stack[n + 1 - 1] = stack[n + 1])>>)
      BY <1>1, <1>4, <2>1, <2>2, EqualDoes
    <3>2. n + 1 - 2 = n - 1 /\ n + 1 - 1 = n
      BY <1>1
    <3> QED
      BY <2>1, <2>3, <3>1, <3>2
  <2>5. Kept /\ Straight' /\ pc' = 3
    BY <1>1, <1>7, <2>4, BecomesKeeps
  <2>6. n - 1 \in Nat
    BY <1>1, <2>1
  <2>7. /\ Len(stack') = n /\ stack'[n] = Bool(same)
        /\ \A k \in 1 .. n - 1 : stack'[k] = b[k]
    BY <1>1, <2>1, <2>4, <2>6 DEF Becomes
  <2>8. Holds(b, n - 1, <<Bool(same)>>)'
    BY <1>1, <2>6, <2>7 DEF Holds
  <2>9. same = (Hash(b[n], "HASH160") = (script[2].item)')
    BY <2>3, <2>5 DEF h, Kept
  <2>10. Holds(b, n - 1, <<Bool(Hash(b[n], "HASH160") = script[2].item)>>)'
    BY <2>8, <2>9
  <2> QED
    BY <2>1, <2>5, <2>10 DEF ScriptHashRun
<1> QED
  BY <1>1, <1>5, <1>6, <1>7

\* A witness program, which only pushes.
LEMMA ProgramStep ==
    ASSUME Executes, Step, IsProgram(script), NEW b \in Seq(Item), ProgramRun(b)
    PROVE  Kept /\ Straight' /\ ProgramRun(b)'
<1> DEFINE n == Len(b)
<1>1. /\ Reading /\ Executing /\ pc \in Nat /\ n \in Nat /\ pc < 2 /\ Len(script) = 2
      /\ (Unreadable => Reject) /\ TypeInv /\ flags = StandardFlags /\ Plain /\ multi = NoMulti
  <2>1. Reading /\ Executing /\ (Unreadable => Reject)
    BY StepReads DEF Executes
  <2> QED
    BY <2>1 DEF Executes, TypeInv, MachineOK, Reading, IsProgram, isWitnessProgram
<1>2. /\ script[1].op = "PUSH" /\ script[1].item = Empty
      /\ script[2].op = "PUSH" /\ script[2].item.type = "hash"
  BY DEF IsProgram, isWitnessProgram, Push
<1>3. Current = script[pc + 1] /\ (pc = 0 \/ pc = 1)
  BY <1>1 DEF Current
<1>4. Current.op = "PUSH" /\ Current.op \in Known /\ ~Unreadable
  <2>1. Current.op = "PUSH" /\ Current.op \in Known
    BY <1>2, <1>3 DEF Known
  <2>2. Current.item.type # "blob"
    BY <1>2, <1>3 DEF Empty, Num
  <2> QED
    BY <1>1, <2>1, <2>2, StepReadable
<1>5. CASE pc = 0
  <2>1. Len(stack) = n /\ \A k \in 1 .. n : stack[k] = b[k]
    BY <1>1, <1>5 DEF ProgramRun, Holds
  <2>2. Becomes(n, <<script[1].item>>)
    BY <1>1, <1>3, <1>4, <1>5, <2>1, PushDoes
  <2>3. Kept /\ Straight' /\ pc' = 1
    BY <1>1, <1>5, <2>2, BecomesKeeps
  <2>4. PICK x : x = script[1].item
    OBVIOUS
  <2>5. Len(stack') = n + 1 /\ stack'[n + 1] = x /\ \A k \in 1 .. n : stack'[k] = b[k]
    BY <1>1, <2>1, <2>2, <2>4 DEF Becomes
  <2>6. Holds(b, n, <<script[1].item>>)'
    BY <1>1, <2>3, <2>4, <2>5 DEF Holds, Kept
  <2> QED
    BY <2>3, <2>6 DEF ProgramRun
<1>6. CASE pc = 1
  <2>1. /\ Len(stack) = n + 1 /\ stack[n + 1] = script[1].item
        /\ \A k \in 1 .. n : stack[k] = b[k]
    BY <1>1, <1>6 DEF ProgramRun, Holds
  <2>2. Becomes(n + 1, <<script[2].item>>)
    BY <1>1, <1>3, <1>4, <1>6, <2>1, PushDoes
  <2>3. Kept /\ Straight' /\ pc' = 2
    BY <1>1, <1>6, <2>2, BecomesKeeps
  <2>4. PICK x, y : x = script[1].item /\ y = script[2].item
    OBVIOUS
  <2>5. /\ Len(stack') = n + 2 /\ stack'[n + 1] = x /\ stack'[n + 2] = y
        /\ \A k \in 1 .. n : stack'[k] = b[k]
    BY <1>1, <2>1, <2>2, <2>4 DEF Becomes
  <2>6. Holds(b, n, <<script[1].item, script[2].item>>)'
    BY <1>1, <2>3, <2>4, <2>5 DEF Holds, Kept
  <2> QED
    BY <2>3, <2>6 DEF ProgramRun
<1> QED
  BY <1>3, <1>5, <1>6

\* What is no script is given up at once.
LEMMA BadStep ==
    ASSUME Executes, Step, IsBad(script), pc = 0
    PROVE  Reject
<1>1. Reading /\ (Unreadable => Reject)
  BY StepReads DEF Executes
<1>2. Current.op = "VER"
  BY DEF Current, IsBad, Op
<1> QED
  BY <1>1, <1>2, StepActs DEF Known, Executes

-----------------------------------------------------------------------------
\* m of n keys

\* The numbers of such a script.
LEMMA MultisigFields ==
    ASSUME NEW c \in Seq(Chunk), IsMultisigScript(c)
    PROVE  /\ Len(c) \in Nat /\ Len(c) > 3 /\ Len(c) - 3 \in 1 .. 16 /\ Len(c) - 2 <= MaxOps
           /\ c[1].item.n \in 1 .. 16 /\ c[1].item = Num(c[1].item.n)
           /\ c[Len(c) - 1].item = Num(Len(c) - 3)
           /\ c[1].op = "NUM" /\ c[Len(c) - 1].op = "NUM" /\ c[Len(c)].op = "CHECKMULTISIG"
           /\ \A k \in 2 .. Len(c) - 2 : c[k].op = "PUSH" /\ c[k].item.type # "blob"
<1>1. /\ Len(c) \in Nat /\ Len(c) > 3 /\ Len(c) - 2 <= MaxOps
      /\ c[1].op = "NUM" /\ c[1].item.n > 0
      /\ \A k \in 2 .. Len(c) - 2 : c[k].op = "PUSH" /\ c[k].item.type # "blob"
      /\ c[Len(c) - 1].op = "NUM" /\ c[Len(c) - 1].item.n = Len(c) - 3
      /\ c[Len(c)].op = "CHECKMULTISIG"
  BY DEF IsMultisigScript, KeysOf
<1>2. c[1] \in Chunk /\ c[Len(c) - 1] \in Chunk
  <2>1. 1 \in 1 .. Len(c) /\ Len(c) - 1 \in 1 .. Len(c)
    BY <1>1
  <2> QED
    BY <2>1, Z3
<1>3. PICK m \in {-1} \cup 1 .. 16 : c[1].item = Num(m)
  BY <1>1, <1>2, ChunkFields
<1>4. PICK k \in {-1} \cup 1 .. 16 : c[Len(c) - 1].item = Num(k)
  BY <1>1, <1>2, ChunkFields
<1>5. c[1].item.n = m /\ c[Len(c) - 1].item.n = k
  BY <1>3, <1>4 DEF Num
<1>6. Len(c) - 3 \in 1 .. 16 /\ c[Len(c) - 1].item = Num(Len(c) - 3)
  <2>1. Len(c) \in Nat /\ Len(c) > 3 /\ c[Len(c) - 1].item.n = Len(c) - 3
    BY <1>1
  <2>2. PICK d \in Nat : d = Len(c) - 3 /\ d > 0
    <3>1. Len(c) - 3 \in Nat /\ Len(c) - 3 > 0
      BY <2>1
    <3> QED
      BY <3>1
  <2>3. k = d
    BY <1>5, <2>1, <2>2
  <2>4. d \in 1 .. 16 /\ c[Len(c) - 1].item = Num(d)
    <3>1. k > 0
      BY <2>2, <2>3
    <3>2. k \in 1 .. 16
      BY <3>1
    <3> QED
      BY <1>4, <2>3, <3>2
  <2> QED
    BY <2>2, <2>4
<1>7. c[1].item.n \in 1 .. 16 /\ c[1].item = Num(c[1].item.n)
  BY <1>1, <1>3, <1>5
<1> QED
  BY <1>1, <1>6, <1>7

\* There are no more signatures than keys that can be given one each.
LEMMA NoRoom ==
    ASSUME NEW s \in Nat, NEW k \in Nat, s > k, NEW f \in [1 .. s -> 2 .. k + 1],
           \A i, j \in 1 .. s : i < j => f[i] < f[j]
    PROVE  FALSE
<1>1. /\ IsFiniteSet(1 .. s) /\ Cardinality(1 .. s) = s
      /\ IsFiniteSet(2 .. k + 1) /\ Cardinality(2 .. k + 1) = k
  BY FS_Interval
<1>2. PICK i, j \in 1 .. s : i # j /\ f[i] = f[j]
  BY <1>1, FS_PigeonHole
<1>3. i < j \/ j < i
  BY <1>2
<1>4. f[i] \in Int /\ f[j] \in Int
  OBVIOUS
<1> QED
  BY <1>2, <1>3, <1>4, SMTT(30)

\* What the loop finds is what opens the script.
LEMMA LoopOpens ==
    ASSUME Plain, NEW b \in Seq(Item), script \in Seq(Chunk), IsMultisigScript(script),
           MultisigLoop(b)
    PROVE  Matched(multi.nSigs, multi.nKeys) <=> OpensMultisig(b, script, phase)
<1> DEFINE n == Len(b)
           c == Len(script)
           m == script[1].item.n
<1>1. /\ n \in Nat /\ c \in Nat /\ c > 3 /\ m \in 1 .. 16 /\ m + 1 <= n
      /\ multi.nSigs = m /\ multi.nKeys = c - 3
      /\ \A k \in 1 .. c - 3 : multi.keys[k] = script[k + 1].item
      /\ \A k \in 1 .. m : multi.sigs[k] = b[n - m + k]
  BY MultisigFields DEF MultisigLoop
<1>2. \A sig, key : Verifies(sig, key) <=> SignedFor(sig, key, phase)
  BY VerifiesHere
<1> HIDE DEF c, m
<1>3. ASSUME Matched(m, c - 3) PROVE OpensMultisig(b, script, phase)
  <2>1. PICK f \in [1 .. m -> 1 .. c - 3] :
            /\ \A i, j \in 1 .. m : i < j => f[i] < f[j]
            /\ \A i \in 1 .. m : Verifies(multi.sigs[i], multi.keys[f[i]])
    BY <1>3 DEF Matched
  <2> DEFINE g == [i \in 1 .. m |-> f[i] + 1]
  <2>2. \A i \in 1 .. m : f[i] \in 1 .. c - 3 /\ g[i] = f[i] + 1
    OBVIOUS
  <2>3. g \in [1 .. m -> 2 .. c - 2]
    <3>1. \A i \in 1 .. m : f[i] + 1 \in 2 .. c - 2
      BY <1>1, <2>2
    <3> QED
      BY <3>1
  <2>4. \A i, j \in 1 .. m : i < j => g[i] < g[j]
    BY <1>1, <2>1, <2>2
  <2>5. ASSUME NEW i \in 1 .. m PROVE SignedFor(b[n - m + i], script[g[i]].item, phase)
    <3>1. multi.keys[f[i]] = script[g[i]].item /\ multi.sigs[i] = b[n - m + i]
      BY <1>1, <2>2
    <3>2. Verifies(multi.sigs[i], multi.keys[f[i]])
      BY <2>1
    <3> QED
      BY <1>2, <3>1, <3>2
  <2> HIDE DEF g
  <2>6. \E h \in [1 .. m -> 2 .. c - 2] :
           /\ \A i, j \in 1 .. m : i < j => h[i] < h[j]
           /\ \A i \in 1 .. m : SignedFor(b[n - m + i], script[h[i]].item, phase)
    BY <2>3, <2>4, <2>5
  <2>7. n >= m + 1
    BY <1>1
  <2> QED
    BY <2>6, <2>7 DEF OpensMultisig, KeysOf, c, m
<1>4. ASSUME OpensMultisig(b, script, phase) PROVE Matched(m, c - 3)
  <2>1. PICK g \in [1 .. m -> 2 .. c - 2] :
            /\ \A i, j \in 1 .. m : i < j => g[i] < g[j]
            /\ \A i \in 1 .. m : SignedFor(b[n - m + i], script[g[i]].item, phase)
    BY <1>4 DEF OpensMultisig, KeysOf, c, m
  <2> DEFINE f == [i \in 1 .. m |-> g[i] - 1]
  <2>2. \A i \in 1 .. m : g[i] \in 2 .. c - 2 /\ f[i] = g[i] - 1
    OBVIOUS
  <2>3. f \in [1 .. m -> 1 .. c - 3]
    BY <1>1, <2>2, SMTT(30)
  <2>4. \A i, j \in 1 .. m : i < j => f[i] < f[j]
    BY <1>1, <2>1, <2>2
  <2>5. ASSUME NEW i \in 1 .. m PROVE Verifies(multi.sigs[i], multi.keys[f[i]])
    <3>1. f[i] \in 1 .. c - 3 /\ f[i] + 1 = g[i]
      BY <1>1, <2>2, SMTT(30)
    <3>2. multi.keys[f[i]] = script[g[i]].item /\ multi.sigs[i] = b[n - m + i]
      BY <1>1, <3>1
    <3>3. SignedFor(b[n - m + i], script[g[i]].item, phase)
      BY <2>1
    <3> QED
      BY <1>2, <3>2, <3>3
  <2> HIDE DEF f
  <2> QED
    BY <2>3, <2>4, <2>5 DEF Matched
<1> QED
  BY <1>1, <1>3, <1>4

\* The pushes of such a script.
LEMMA MultisigPush ==
    ASSUME TypeInv, flags = StandardFlags, Plain, Step, IsMultisigScript(script),
           NEW b \in Seq(Item), multi = NoMulti, nOpCount = 0, pc < Len(script) - 1,
           MultisigPushed(b, pc)
    PROVE  Kept /\ MultisigRun(b)'
<1> DEFINE n == Len(b)
           c == Len(script)
<1>1. /\ Reading /\ Executing /\ pc \in Nat /\ n \in Nat
      /\ (Unreadable => Reject) /\ script \in Seq(Chunk)
  BY StepReads DEF TypeInv, MachineOK
<1>2. /\ c \in Nat /\ c > 3 /\ script[1].op = "NUM" /\ script[c - 1].op = "NUM"
      /\ script[1].item.type # "blob" /\ script[c - 1].item.type # "blob"
      /\ \A k \in 2 .. c - 2 : script[k].op = "PUSH" /\ script[k].item.type # "blob"
  <2>1. /\ script[1].item = Num(script[1].item.n) /\ script[c - 1].item = Num(c - 3)
        /\ c \in Nat /\ c > 3 /\ script[1].op = "NUM" /\ script[c - 1].op = "NUM"
        /\ \A k \in 2 .. c - 2 : script[k].op = "PUSH" /\ script[k].item.type # "blob"
    BY <1>1, MultisigFields
  <2> QED
    BY <2>1 DEF Num
<1>3. Current = script[pc + 1] /\ Current.op \in {"PUSH", "NUM"} /\ Current.item.type # "blob"
  <2>1. pc + 1 = 1 \/ pc + 1 = c - 1 \/ pc + 1 \in 2 .. c - 2
    BY <1>1, <1>2
  <2> QED
    BY <1>2, <2>1 DEF Current
<1>4. Counted = 0 /\ ~Unreadable
  <2>1. Counted = 0 /\ Current.op \notin Disabled
    BY <1>3 DEF Counted, PushOps, Disabled
  <2>2. MaxOps \in Nat
    BY LimitAssumption
  <2> QED
    BY <1>3, <2>1, <2>2 DEF Unreadable
<1>5. /\ Len(stack) = n + pc
      /\ \A j \in 1 .. n : stack[j] = b[j]
      /\ \A j \in 1 .. pc : stack[n + j] = script[j].item
  BY DEF MultisigPushed
<1>6. Becomes(n + pc, <<script[pc + 1].item>>)
  BY <1>3, <1>4, <1>5, PushDoes
<1>7. /\ UNCHANGED <<spend, verdicts, flags, phase, stackCopy, script>>
      /\ UNCHANGED <<altstack, vfExec, pbegincodehash, multi>>
      /\ pc' = pc + 1 /\ nOpCount' = 0
  BY <1>4, <1>6 DEF Becomes, Executed, Advance
<1>8. Kept
  BY <1>7 DEF Kept, Plain
<1>9. /\ Len(stack') = n + pc + 1 /\ stack'[n + pc + 1] = script[pc + 1].item
      /\ \A j \in 1 .. n + pc : stack'[j] = stack[j]
  BY <1>1, <1>6 DEF Becomes
<1>10. \A j \in 1 .. n : stack'[j] = b[j]
  BY <1>1, <1>5, <1>9
<1>11. \A j \in 1 .. pc + 1 : stack'[n + j] = script[j].item
  <2> SUFFICES ASSUME NEW j \in 1 .. pc + 1 PROVE stack'[n + j] = script[j].item
    OBVIOUS
  <2>1. CASE j = pc + 1
    BY <1>1, <1>9, <2>1
  <2>2. CASE j # pc + 1
    <3>1. j \in 1 .. pc /\ n + j \in 1 .. n + pc
      BY <1>1, <2>2
    <3> QED
      BY <1>5, <1>9, <3>1
  <2> QED
    BY <2>1, <2>2
<1>12. MultisigPushed(b, pc)'
  BY <1>1, <1>7, <1>9, <1>10, <1>11 DEF MultisigPushed
<1> QED
  BY <1>1, <1>2, <1>7, <1>8, <1>12 DEF MultisigRun

\* More signatures than keys, or fewer items than signatures, open nothing.
LEMMA OpensLess ==
    ASSUME NEW b \in Seq(Item), NEW c \in Seq(Chunk), IsMultisigScript(c), NEW where,
           OpensMultisig(b, c, where)
    PROVE  c[1].item.n <= Len(c) - 3 /\ c[1].item.n + 1 <= Len(b)
<1>1. Len(c) \in Nat /\ Len(c) - 3 \in 1 .. 16 /\ c[1].item.n \in 1 .. 16
  BY MultisigFields
<1>2. PICK m \in 1 .. 16, k \in 1 .. 16 : m = c[1].item.n /\ k = Len(c) - 3
  BY <1>1
<1>3. PICK f \in [1 .. m -> KeysOf(c)] : \A i, j \in 1 .. m : i < j => f[i] < f[j]
  BY <1>2 DEF OpensMultisig
<1>4. KeysOf(c) = 2 .. k + 1
  BY <1>1, <1>2 DEF KeysOf
<1>5. ~(m > k)
  <2> SUFFICES ASSUME m > k PROVE FALSE
    OBVIOUS
  <2>1. m \in Nat /\ k \in Nat
    OBVIOUS
  <2>2. f \in [1 .. m -> 2 .. k + 1]
    BY <1>4
  <2> QED
    BY <1>3, <2>1, <2>2, NoRoom
<1>6. Len(b) >= m + 1
  BY <1>2 DEF OpensMultisig
<1> QED
  BY <1>1, <1>2, <1>5, <1>6

\* OP_CHECKMULTISIG of such a script finds its arguments, if they are there.
LEMMA MultisigBegin ==
    ASSUME TypeInv, flags = StandardFlags, Plain, Step, IsMultisigScript(script),
           NEW b \in Seq(Item), multi = NoMulti, nOpCount = 0, pc = Len(script) - 1,
           MultisigPushed(b, pc)
    PROVE  \/ Kept /\ MultisigRun(b)'
           \/ Reject /\ ~OpensMultisig(b, script, phase)
<1>1. /\ Reading /\ Executing /\ pc \in Nat /\ script \in Seq(Chunk) /\ stack \in Seq(Item)
  BY StepReads DEF TypeInv, MachineOK
<1>2. PICK n \in Nat : n = Len(b)
  BY SMTT(30)
<1>3. PICK m \in 1 .. 16, k \in 1 .. 16, c \in Nat :
         m = script[1].item.n /\ k = Len(script) - 3 /\ c = Len(script)
  BY <1>1, MultisigFields
<1>4. /\ c = k + 3 /\ k + 1 <= MaxOps
      /\ script[1].item = Num(m) /\ script[c - 1].item = Num(k)
      /\ script[c].op = "CHECKMULTISIG"
  BY <1>1, <1>3, MultisigFields
<1>5. /\ Len(stack) = n + c - 1 /\ stack[n + (c - 1)] = Num(k) /\ stack[n + 1] = Num(m)
      /\ \A j \in 1 .. n : stack[j] = b[j]
      /\ \A j \in 1 .. c - 1 : stack[n + j] = script[j].item
  <2>1. /\ Len(stack) = n + (c - 1)
        /\ \A j \in 1 .. n : stack[j] = b[j]
        /\ \A j \in 1 .. c - 1 : stack[n + j] = script[j].item
    BY <1>2, <1>3 DEF MultisigPushed
  <2>2. 1 \in 1 .. c - 1 /\ c - 1 \in 1 .. c - 1
    BY <1>4
  <2> QED
    BY <1>4, <2>1, <2>2
<1>6. Current = script[c] /\ Current.op = "CHECKMULTISIG"
  BY <1>3, <1>4 DEF Current
<1>7. ~Unreadable
  <2>1. Counted = 1
    BY <1>6 DEF Counted, PushOps
  <2>2. MaxOps \in Nat /\ 5 <= MaxOps
    BY LimitAssumption
  <2>3. Current.op \notin Disabled /\ Current.item.type # "blob"
    BY <1>1, <1>6, NoData DEF Disabled
  <2> QED
    BY <2>1, <2>2, <2>3 DEF Unreadable
<1>8. StepMultisig
  BY <1>6, <1>7, StepActs DEF Known
<1> DEFINE N == Len(stack)
           K == stack[N].n
           p == N - 1 - K
           S == stack[p].n
           good == /\ N >= 1 /\ IsNum(stack[N]) /\ K \in 0 .. 20
                   /\ Fits(K)
                   /\ p >= 1 /\ IsNum(stack[p]) /\ S \in 0 .. K
                   /\ p - S > 1
<1>9. IF good
      THEN /\ multi' = [at |-> "trying",
                        verify |-> Current.op = "CHECKMULTISIGVERIFY",
                        keys |-> [j \in 1 .. K |-> stack[p + j]],
                        sigs |-> [j \in 1 .. S |-> stack[p - 1 - S + j]],
                        nSigs |-> S, nKeys |-> K, nSigsCount |-> S, nKeysCount |-> K,
                        fSuccess |-> TRUE]
           /\ pc' = pc + 1
           /\ UNCHANGED <<spend, verdicts, flags, phase, stackCopy, script,
                          stack, altstack, vfExec, pbegincodehash>>
      ELSE Reject
  BY <1>8, Zenon DEF StepMultisig
<1>10. N = n + k + 2 /\ K = k /\ p = n + 1 /\ S = m
  <2>1. N = n + k + 2 /\ N = n + (c - 1)
    <3>1. c = k + 3 /\ N = n + c - 1
      BY <1>4, <1>5
    <3> HIDE DEF N
    <3> QED
      BY <3>1
  <2>2. stack[N] = Num(k)
    BY <1>5, <2>1
  <2>3. K = k
    BY <2>2 DEF Num
  <2>4. p = n + 1
    BY <2>1, <2>3
  <2> QED
    BY <1>5, <2>1, <2>3, <2>4 DEF Num
<1>11. IsNum(stack[N]) /\ IsNum(stack[p])
  <2>1. stack[N] = Num(k) /\ stack[p] = Num(m)
    BY <1>4, <1>5, <1>10
  <2>2. MaxNum \in Nat /\ 20 <= MaxNum
    BY LimitAssumption
  <2> QED
    BY <2>1, <2>2 DEF IsNum, Num
<1> HIDE DEF N, K, p, S
<1>12. good <=> m <= k /\ n >= m + 1
  <2>1. Fits(K)
    BY <1>4, <1>10, LimitAssumption DEF Fits
  <2> QED
    BY <1>10, <1>11, <2>1
<1> HIDE DEF good
<1>13. CASE ~(m <= k /\ n >= m + 1)
  <2>1. Reject
    BY <1>9, <1>12, <1>13
  <2>2. ~OpensMultisig(b, script, phase)
    BY <1>1, <1>2, <1>3, <1>13, OpensLess
  <2> QED
    BY <2>1, <2>2
<1>14. CASE m <= k /\ n >= m + 1
  <2>1. /\ multi' = [at |-> "trying",
                     verify |-> Current.op = "CHECKMULTISIGVERIFY",
                     keys |-> [j \in 1 .. k |-> stack[n + 1 + j]],
                     sigs |-> [j \in 1 .. m |-> stack[n + 1 - 1 - m + j]],
                     nSigs |-> m, nKeys |-> k, nSigsCount |-> m, nKeysCount |-> k,
                     fSuccess |-> TRUE]
        /\ pc' = pc + 1
        /\ UNCHANGED <<spend, verdicts, flags, phase, stackCopy, script,
                       stack, altstack, vfExec, pbegincodehash>>
    BY <1>9, <1>10, <1>12, <1>14
  <2>2. Kept /\ pc' = c
    BY <1>3, <2>1 DEF Kept, Plain
  <2>3. /\ multi'.at = "trying" /\ multi'.verify = FALSE
        /\ multi'.nSigs = m /\ multi'.nKeys = k
        /\ multi'.keys = [j \in 1 .. k |-> stack[n + 1 + j]]
        /\ multi'.sigs = [j \in 1 .. m |-> stack[n + 1 - 1 - m + j]]
    BY <1>6, <2>1
  <2>4. \A j \in 1 .. k : multi'.keys[j] = script[j + 1].item
    <3> SUFFICES ASSUME NEW j \in 1 .. k PROVE stack[n + 1 + j] = script[j + 1].item
      BY <2>3
    <3>1. j + 1 \in 1 .. c - 1 /\ n + 1 + j = n + (j + 1)
      BY <1>4
    <3> QED
      BY <1>5, <3>1
  <2>5. \A j \in 1 .. m : multi'.sigs[j] = b[n - m + j]
    <3> SUFFICES ASSUME NEW j \in 1 .. m PROVE stack[n + 1 - 1 - m + j] = b[n - m + j]
      BY <2>3
    <3>1. n + 1 - 1 - m + j = n - m + j /\ n - m + j \in 1 .. n
      BY <1>14
    <3> QED
      BY <1>5, <3>1
  <2>6. MultisigLoop(b)'
    BY <1>2, <1>3, <1>14, <2>1, <2>3, <2>4, <2>5 DEF MultisigLoop
  <2>7. MultisigPushed(b, Len(script) - 1)'
    BY <2>1 DEF MultisigPushed
  <2> QED
    BY <1>3, <2>1, <2>2, <2>6, <2>7 DEF MultisigRun
<1> QED
  BY <1>13, <1>14

\* In the loop nothing is read.
LEMMA LoopSteps ==
    ASSUME multi.at = "trying", Step
    PROVE  TrySignature \/ EndMultisig
<1>1. ~Reading
  BY DEF Reading, NoMulti
<1> QED
  BY <1>1, Zenon DEF Step, StepUnreadable, StepSkipped, StepPush, StepBad, StepIf, StepElse,
     StepEndif, StepRewrite, StepDepth, StepPick, StepToAlt, StepFromAlt, StepTimelock,
     StepNop, StepCodeSeparator, StepCheckSig, StepMultisig, Runs

\* A turn of the loop.
LEMMA MultisigTry ==
    ASSUME TypeInv, flags = StandardFlags, Plain, TrySignature, NEW b \in Seq(Item),
           MultisigLoop(b), MultisigPushed(b, Len(script) - 1), pc = Len(script)
    PROVE  Kept /\ MultisigRun(b)'
<1>1. multi \in Multi
  BY DEF TypeInv, MultiOK, MultisigLoop, NoMulti
<1> DEFINE sig == multi.sigs[multi.nSigsCount]
           key == multi.keys[multi.nKeysCount]
           sigsLeft == multi.nSigsCount - (IF Verifies(sig, key) THEN 1 ELSE 0)
           keysLeft == KeysAfter(Verifies(sig, key))
<1>a. checkSignatureEncoding(sig) /\ checkPubkeyEncoding(key)
  BY EncodingFree
<1>b. multi' = [multi EXCEPT !.nSigsCount = sigsLeft, !.nKeysCount = keysLeft,
                             !.fSuccess = sigsLeft <= keysLeft]
  BY <1>a, Zenon DEF TrySignature
<1> HIDE DEF sigsLeft, keysLeft
<1>2. PICK s, k, f : multi' = [multi EXCEPT !.nSigsCount = s, !.nKeysCount = k, !.fSuccess = f]
  BY <1>b
<1>3. UNCHANGED <<spend, verdicts, flags, phase, stackCopy, script,
                  pc, stack, altstack, vfExec, pbegincodehash>>
  BY EncodingFree DEF TrySignature
<1>4. /\ multi'.at = multi.at /\ multi'.verify = multi.verify
      /\ multi'.keys = multi.keys /\ multi'.sigs = multi.sigs
      /\ multi'.nSigs = multi.nSigs /\ multi'.nKeys = multi.nKeys
  BY <1>1, <1>2 DEF Multi
<1>5. MultisigLoop(b)'
  BY <1>3, <1>4 DEF MultisigLoop
<1>6. MultisigPushed(b, Len(script) - 1)'
  BY <1>3 DEF MultisigPushed
<1>7. Kept /\ pc' = Len(script')
  BY <1>3 DEF Kept, Plain
<1> QED
  BY <1>5, <1>6, <1>7 DEF MultisigRun

\* After the loop the arguments are gone, and what was found is on the stack.
LEMMA MultisigEnd ==
    ASSUME TypeInv, MultisigExact, flags = StandardFlags, Plain, EndMultisig,
           IsMultisigScript(script), NEW b \in Seq(Item),
           MultisigLoop(b), MultisigPushed(b, Len(script) - 1), pc = Len(script)
    PROVE  Kept /\ MultisigRun(b)'
<1>1. /\ script \in Seq(Chunk) /\ stack \in Seq(Item) /\ multi \in Multi
  BY DEF TypeInv, MachineOK, MultiOK, MultisigLoop, NoMulti
<1>2. PICK n \in Nat : n = Len(b)
  OBVIOUS
<1>3. PICK m \in 1 .. 16, k \in 1 .. 16 : m = script[1].item.n /\ k = Len(script) - 3
  BY <1>1, MultisigFields
<1>4. multi.nSigs = m /\ multi.nKeys = k /\ m + 1 <= n /\ ~multi.verify /\ multi.verify = FALSE
  <2>1. multi.verify \in BOOLEAN
    BY <1>1 DEF Multi
  <2> QED
    BY <1>2, <1>3, <2>1 DEF MultisigLoop
<1>5. /\ Len(stack) = n + k + 2
      /\ \A j \in 1 .. n : stack[j] = b[j]
  <2>1. /\ Len(stack) = n + (Len(script) - 1)
        /\ \A j \in 1 .. n : stack[j] = b[j]
    BY <1>2 DEF MultisigPushed
  <2>2. Len(script) \in Nat /\ Len(script) = k + 3
    <3>1. Len(script) \in Nat
      BY <1>1
    <3> QED
      BY <1>3, <3>1
  <2> QED
    BY <2>1, <2>2
<1>6. multi.fSuccess \in BOOLEAN
  BY <1>1 DEF Multi
<1>7. multi.fSuccess = OpensMultisig(b, script, phase)
  <2>1. multi.fSuccess <=> Matched(multi.nSigs, multi.nKeys)
    BY DEF MultisigExact, EndMultisig
  <2>2. Matched(multi.nSigs, multi.nKeys) <=> OpensMultisig(b, script, phase)
    BY <1>1, LoopOpens
  <2>3. OpensMultisig(b, script, phase) \in BOOLEAN
    BY DEF OpensMultisig
  <2> QED
    BY <1>6, <2>1, <2>2, <2>3
<1>8. "NULLFAIL" \notin flags /\ "NULLDUMMY" \notin flags
  BY DEF StandardFlags
<1> DEFINE dummy == Len(stack) - 2 - multi.nKeys - multi.nSigs
<1>9. /\ stack' = SubSeq(stack, 1, dummy - 1) \o <<Bool(multi.fSuccess)>>
      /\ multi' = NoMulti
      /\ UNCHANGED <<spend, verdicts, flags, phase, stackCopy, script,
                     pc, altstack, vfExec, pbegincodehash>>
  BY <1>4, <1>8, Zenon DEF EndMultisig
<1>10. dummy - 1 = n - m - 1 /\ n - m - 1 \in 0 .. Len(stack)
  BY <1>4, <1>5
<1> HIDE DEF dummy
<1>11. PICK d \in 0 .. Len(stack) : d = n - m - 1
  BY <1>10
<1>12. PICK x : x = Bool(multi.fSuccess)
  OBVIOUS
<1>13. x \in Item
  BY <1>6, <1>12, NumType
<1>14. /\ Len(stack') = d + 1 /\ stack'[d + 1] = x
       /\ \A j \in 1 .. d : stack'[j] = stack[j]
  <2>1. stack' = SubSeq(stack, 1, d) \o <<x>>
    BY <1>9, <1>10, <1>11, <1>12
  <2>2. <<x>> \in Seq(Item) /\ Len(<<x>>) = 1 /\ <<x>>[1] = x
    BY <1>13
  <2>3. /\ Len(stack') = d + Len(<<x>>)
        /\ \A j \in 1 .. d : stack'[j] = stack[j]
        /\ \A j \in 1 .. Len(<<x>>) : stack'[d + j] = <<x>>[j]
    BY <1>1, <2>1, <2>2, PartOn
  <2>4. 1 \in 1 .. 1
    OBVIOUS
  <2> QED
    BY <2>2, <2>3, <2>4
<1>15. \A j \in 1 .. d : stack'[j] = b[j]
  BY <1>5, <1>11, <1>14, SMTT(30)
<1>16. x = Bool(OpensMultisig(b, script, phase))'
  BY <1>7, <1>9, <1>12 
<1>17. Holds(b, d, <<x>>)'
  BY <1>14, <1>15 DEF Holds
<1>18. Holds(b, Len(b) - script[1].item.n - 1, <<Bool(OpensMultisig(b, script, phase))>>)'
  <2>1. Len(b) - script'[1].item.n - 1 = d
    BY <1>2, <1>3, <1>9, <1>11
  <2> QED
    BY <1>16, <1>17, <2>1
<1>19. Kept /\ pc' = Len(script')
  BY <1>9 DEF Kept, Plain
<1>20. script'[1].item.n + 1 <= Len(b)
  BY <1>2, <1>3, <1>4, <1>9
<1> QED
  BY <1>9, <1>18, <1>19, <1>20 DEF MultisigRun

\* m of n keys.
LEMMA MultisigStep ==
    ASSUME TypeInv, MultisigExact, flags = StandardFlags, Plain, Step,
           IsMultisigScript(script), NEW b \in Seq(Item), MultisigRun(b)
    PROVE  \/ Kept /\ MultisigRun(b)'
           \/ Reject /\ ~OpensMultisig(b, script, phase)
<1>1. script \in Seq(Chunk) /\ pc \in Nat /\ Len(script) \in Nat
  BY DEF TypeInv, MachineOK
<1>2. CASE pc < Len(script) /\ multi = NoMulti /\ nOpCount = 0 /\ MultisigPushed(b, pc)
  <2>1. CASE pc < Len(script) - 1
    BY <1>2, <2>1, MultisigPush
  <2>2. CASE pc = Len(script) - 1
    BY <1>2, <2>2, MultisigBegin
  <2> QED
    BY <1>1, <1>2, <2>1, <2>2
<1>3. CASE pc = Len(script) /\ MultisigPushed(b, Len(script) - 1) /\ MultisigLoop(b)
  BY <1>3, LoopSteps, MultisigTry, MultisigEnd DEF MultisigLoop
<1>4. CASE pc = Len(script) /\ multi = NoMulti
  BY <1>1, <1>4, StepReads DEF Reading
<1> QED
  BY <1>2, <1>3, <1>4 DEF MultisigRun

-----------------------------------------------------------------------------
\* The kinds of scripts are told apart by their length and their instructions.
LEMMA KindsApart ==
    ASSUME NEW c \in Seq(Chunk)
    PROVE  /\ IsKeyScript(c) => /\ ~IsKeyHashScript(c) /\ ~IsMultisigScript(c)
                                /\ ~isWitnessProgram(c) /\ ~isScriptHashOut(c) /\ ~IsBad(c)
           /\ IsKeyHashScript(c) => /\ ~IsMultisigScript(c) /\ ~isWitnessProgram(c)
                                    /\ ~isScriptHashOut(c) /\ ~IsBad(c)
           /\ IsMultisigScript(c) => /\ ~isWitnessProgram(c) /\ ~isScriptHashOut(c)
                                     /\ ~IsBad(c)
           /\ isWitnessProgram(c) => ~isScriptHashOut(c) /\ ~IsBad(c)
           /\ isScriptHashOut(c) => ~IsBad(c)
<1>1. IsBad(c) => Len(c) = 1
  BY DEF IsBad
<1>2. IsMultisigScript(c) => /\ Len(c) # 1 /\ Len(c) # 2 /\ Len(c) # 3
                             /\ c[1].op = "NUM"
  BY DEF IsMultisigScript
<1>3. IsKeyScript(c) => Len(c) = 2 /\ c[2].op = "CHECKSIG"
  BY DEF IsKeyScript
<1>4. IsKeyHashScript(c) => Len(c) = 5 /\ c[1].op = "DUP"
  BY DEF IsKeyHashScript
<1>5. isWitnessProgram(c) => Len(c) = 2 /\ c[2].op = "PUSH"
  BY DEF isWitnessProgram
<1>6. isScriptHashOut(c) => Len(c) = 3
  BY DEF isScriptHashOut
<1>7. "DUP" # "NUM" /\ "PUSH" # "CHECKSIG"
  OBVIOUS
<1>8. 1 # 2 /\ 1 # 3 /\ 1 # 5 /\ 2 # 3 /\ 2 # 5 /\ 3 # 5
  OBVIOUS
<1> QED
  BY <1>1, <1>2, <1>3, <1>4, <1>5, <1>6, <1>7, <1>8, Zenon

\* What is pending, by the kind of the script.
LEMMA PendingMeans ==
    ASSUME script \in Seq(Chunk), NEW b
    PROVE  LET tidy == IF phase = "witness" THEN Len(b) = Takes(script)
                       ELSE spend.witness = <<>>
           IN  /\ IsKeyScript(script) =>
                     (Pending(b) <=> OpensKey(b, script, phase) /\ tidy)
               /\ IsKeyHashScript(script) =>
                     (Pending(b) <=> OpensKeyHash(b, script, phase) /\ tidy)
               /\ IsMultisigScript(script) =>
                     (Pending(b) <=> OpensMultisig(b, script, phase) /\ tidy)
               /\ IsProgram(script) =>
                     (Pending(b) <=>
                        /\ b = <<>> /\ OpensWitness(script[2].item)
                        /\ phase = "redeemScript" => spend.scriptSig[1].minimal)
               /\ isScriptHashOut(script) => (Pending(b) <=> Redeems(Len(b)))
               /\ IsBad(script) => ~Pending(b)
<1>1. IsProgram(script) => isWitnessProgram(script)
  BY DEF IsProgram
<1> DEFINE tidy == IF phase = "witness" THEN Len(b) = Takes(script)
                   ELSE spend.witness = <<>>
           program == /\ b = <<>> /\ OpensWitness(script[2].item)
                      /\ phase = "redeemScript" => spend.scriptSig[1].minimal
<1>2. Pending(b) <=> \/ IsTemplate(script) /\ Opens(b, script, phase) /\ tidy
                     \/ IsProgram(script) /\ program
                     \/ isScriptHashOut(script) /\ Redeems(Len(b))
  BY Zenon DEF Pending
<1> HIDE DEF tidy, program
<1>3. Opens(b, script, phase) <=>
         \/ IsKeyScript(script) /\ OpensKey(b, script, phase)
         \/ IsKeyHashScript(script) /\ OpensKeyHash(b, script, phase)
         \/ IsMultisigScript(script) /\ OpensMultisig(b, script, phase)
  BY DEF Opens
<1>4. /\ IsKeyScript(script) => (Pending(b) <=> OpensKey(b, script, phase) /\ tidy)
      /\ IsKeyHashScript(script) => (Pending(b) <=> OpensKeyHash(b, script, phase) /\ tidy)
      /\ IsMultisigScript(script) => (Pending(b) <=> OpensMultisig(b, script, phase) /\ tidy)
      /\ IsProgram(script) => (Pending(b) <=> program)
      /\ isScriptHashOut(script) => (Pending(b) <=> Redeems(Len(b)))
      /\ IsBad(script) => ~Pending(b)
  BY <1>1, <1>2, <1>3, KindsApart DEF IsTemplate
<1> QED
  BY <1>4, Zenon DEF tidy, program

\* All this is about the data of the spend alone.
LEMMA SpendSame ==
    ASSUME spend' = spend
    PROVE  /\ Authorised' <=> Authorised
           /\ IsStandard' <=> IsStandard
           /\ Items' = Items /\ Bases' = Bases
           /\ \A p : OpensWitness(p)' <=> OpensWitness(p)
           /\ \A n : Redeems(n)' <=> Redeems(n)
<1>1. Items' = Items
  BY DEF Items
<1>2. Bases' = Bases
  BY <1>1 DEF Bases
<1>3. \A p : OpensWitness(p)' <=> OpensWitness(p)
  BY DEF OpensWitness
<1>4. \A n : Redeems(n)' <=> Redeems(n)
  BY <1>1, <1>3 DEF Redeems
<1>5. Delivered' <=> Delivered
  BY DEF Delivered, Pushed
<1>6. Authorised' <=> Authorised
  BY <1>1, <1>3, <1>4, <1>5 DEF Authorised
<1>7. IsStandard' <=> IsStandard
  BY DEF IsStandard
<1> QED
  BY <1>1, <1>2, <1>3, <1>4, <1>6, <1>7

\* What is pending and where it came from, after an instruction.
LEMMA KeptMeans ==
    ASSUME Kept, NEW b
    PROVE  /\ Source(b) => Source(b)'
           /\ Pending(b)' <=> Pending(b)
           /\ Authorised' <=> Authorised
<1>1. UNCHANGED <<spend, phase, stackCopy, script>>
  BY DEF Kept
<1>2. /\ Authorised' <=> Authorised
      /\ Items' = Items
      /\ OpensWitness(script[2].item)' <=> OpensWitness(script[2].item)
      /\ Redeems(Len(b))' <=> Redeems(Len(b))
  BY <1>1, SpendSame DEF OpensWitness, Redeems, Items
<1>3. Source(b) => Source(b)'
  BY <1>1, <1>2 DEF Source
<1>4. Pending(b)' <=> Pending(b)
  BY <1>1, <1>2 DEF Pending
<1> QED
  BY <1>2, <1>3, <1>4

\* An instruction of a script of a standard kind.
LEMMA RunningStep ==
    ASSUME TypeInv, MultisigExact, flags = StandardFlags, Step, NEW b \in Seq(Item), Running(b)
    PROVE  \/ Kept /\ Running(b)'
           \/ Reject /\ ~Authorised
<1>1. /\ Plain /\ script \in Seq(Chunk) /\ (Straight => Executes)
  BY DEF Running, Executes, Straight, TypeInv, MachineOK
<1>2. ASSUME Kept, Kinds(b)' PROVE Running(b)'
  <2>1. Plain' /\ phase' = phase
    BY <1>2 DEF Kept
  <2>2. Source(b)' /\ (Authorised <=> Pending(b))'
    BY <1>2, KeptMeans DEF Running
  <2> QED
    BY <1>2, <2>1, <2>2 DEF Running
<1>3. ASSUME Kept PROVE script' = script /\ phase' = phase
  BY <1>3 DEF Kept
<1>4. Authorised <=> Pending(b)
  BY DEF Running
<1>5. CASE IsKeyScript(script) /\ Straight /\ KeyRun(b)
  BY <1>1, <1>2, <1>3, <1>4, <1>5, KeyStep, PendingMeans DEF Kinds
<1>6. CASE IsKeyHashScript(script) /\ Straight /\ KeyHashRun(b)
  BY <1>1, <1>2, <1>3, <1>4, <1>6, KeyHashStep, PendingMeans DEF Kinds
<1>7. CASE IsMultisigScript(script) /\ MultisigRun(b)
  BY <1>1, <1>2, <1>3, <1>4, <1>7, MultisigStep, PendingMeans DEF Kinds
<1>8. CASE IsProgram(script) /\ Straight /\ ProgramRun(b) /\ phase # "witness"
  <2>1. Kept /\ Straight' /\ ProgramRun(b)'
    BY <1>1, <1>8, ProgramStep
  <2>2. IsProgram(script)'
    BY <1>3, <1>8, <2>1
  <2> QED
    BY <1>2, <1>3, <1>8, <2>1, <2>2 DEF Kinds
<1>9. CASE isScriptHashOut(script) /\ Straight /\ ScriptHashRun(b) /\ phase = "scriptPubkey"
  <2>1. \/ Kept /\ Straight' /\ ScriptHashRun(b)'
        \/ Reject /\ b = <<>>
    BY <1>1, <1>9, ScriptHashStep
  <2>2. b = <<>> => ~Redeems(Len(b))
    BY DEF Redeems
  <2> QED
    BY <1>1, <1>2, <1>3, <1>4, <1>9, <2>1, <2>2, PendingMeans DEF Kinds
<1>10. CASE IsBad(script) /\ Straight /\ pc = 0
  BY <1>1, <1>4, <1>10, BadStep, PendingMeans
<1> QED
  BY <1>5, <1>6, <1>7, <1>8, <1>9, <1>10 DEF Running, Kinds

-----------------------------------------------------------------------------
\* How the scripts of the standard kinds end

\* What is left of one item above d.
LEMMA TopTells ==
    ASSUME stack \in Seq(Item), NEW b \in Seq(Item), NEW d \in Nat, NEW x, Holds(b, d, <<x>>)
    PROVE  Len(stack) = d + 1 /\ (Succeeded <=> castToBool(x))
<1>1. Len(<<x>>) = 1 /\ <<x>>[1] = x /\ 1 \in 1 .. 1
  OBVIOUS
<1>2. Len(stack) = d + 1 /\ stack[d + 1] = x
  BY <1>1 DEF Holds
<1>3. stack # <<>> /\ Top = x
  BY <1>2 DEF Top
<1> QED
  BY <1>2, <1>3 DEF Succeeded

\* A truth value is true or false on the stack.
LEMMA BoolTells == \A v \in BOOLEAN : castToBool(Bool(v)) <=> v
BY DEF castToBool, Bool, Num, Empty

\* A script to a key, to its hash, or to m of n keys has taken its items and left
\* whether they open it.
LEMMA TemplateEnds ==
    ASSUME TypeInv, NEW b \in Seq(Item), Running(b), Ended, IsTemplate(script)
    PROVE  /\ Takes(script) \in Nat \ {0} /\ Takes(script) <= Len(b)
           /\ Len(stack) = Len(b) - Takes(script) + 1
           /\ Succeeded <=> Opens(b, script, phase)
           /\ ~isWitnessProgram(script) /\ ~isScriptHashOut(script)
<1>1. script \in Seq(Chunk) /\ stack \in Seq(Item) /\ pc = Len(script) /\ multi = NoMulti
  BY DEF TypeInv, MachineOK, Ended
<1>2. /\ ~isWitnessProgram(script) /\ ~isScriptHashOut(script)
      /\ ~IsProgram(script) /\ ~IsBad(script)
  BY <1>1, KindsApart DEF IsTemplate, IsProgram
<1>3. PICK n \in Nat : n = Len(b)
  OBVIOUS
<1>4. CASE IsKeyScript(script)
  <2>1. KeyRun(b) /\ pc = 2
    BY <1>1, <1>2, <1>4, KindsApart DEF Running, Kinds, IsKeyScript
  <2>2. n >= 1 /\ Holds(b, n - 1, <<Bool(OpensKey(b, script, phase))>>)
    BY <1>3, <2>1 DEF KeyRun
  <2>3. OpensKey(b, script, phase) \in BOOLEAN
    BY DEF OpensKey
  <2>4. n - 1 \in Nat
    BY <2>2
  <2>5. Len(stack) = n - 1 + 1 /\ (Succeeded <=> OpensKey(b, script, phase))
    BY <1>1, <2>2, <2>3, <2>4, TopTells, BoolTells
  <2>6. Takes(script) = 1
    BY <1>4 DEF Takes
  <2>7. Opens(b, script, phase) <=> OpensKey(b, script, phase)
    BY <1>1, <1>4, KindsApart DEF Opens
  <2> QED
    BY <1>2, <1>3, <2>2, <2>5, <2>6, <2>7
<1>5. CASE IsKeyHashScript(script)
  <2>1. KeyHashRun(b) /\ pc = 5
    BY <1>1, <1>2, <1>5, KindsApart DEF Running, Kinds, IsKeyHashScript
  <2>2. n >= 2 /\ Holds(b, n - 2, <<Bool(OpensKeyHash(b, script, phase))>>)
    BY <1>3, <2>1 DEF KeyHashRun
  <2>3. OpensKeyHash(b, script, phase) \in BOOLEAN
    BY DEF OpensKeyHash
  <2>4. n - 2 \in Nat
    BY <2>2
  <2>5. Len(stack) = n - 2 + 1 /\ (Succeeded <=> OpensKeyHash(b, script, phase))
    BY <1>1, <2>2, <2>3, <2>4, TopTells, BoolTells
  <2>6. Takes(script) = 2
    BY <1>1, <1>5, KindsApart DEF Takes
  <2>7. Opens(b, script, phase) <=> OpensKeyHash(b, script, phase)
    BY <1>1, <1>5, KindsApart DEF Opens
  <2> QED
    BY <1>2, <1>3, <2>2, <2>5, <2>6, <2>7
<1>6. CASE IsMultisigScript(script)
  <2> DEFINE ok == OpensMultisig(b, script, phase)
  <2>1. MultisigRun(b)
    BY <1>1, <1>2, <1>6, KindsApart DEF Running, Kinds
  <2>2. multi.at # "trying"
    BY <1>1 DEF NoMulti
  <2>3. PICK m \in 1 .. 16 : m = script[1].item.n
    BY <1>1, <1>6, MultisigFields
  <2>4. m + 1 <= n /\ Holds(b, n - m - 1, <<Bool(ok)>>)
    <3>1. ~(pc < Len(script))
      BY <1>1
    <3> QED
      BY <1>3, <2>1, <2>2, <2>3, <3>1 DEF MultisigRun, MultisigLoop
  <2>5. ok \in BOOLEAN
    BY DEF OpensMultisig
  <2>6. n - m - 1 \in Nat
    BY <2>4
  <2> HIDE DEF ok
  <2>7. Len(stack) = n - m - 1 + 1 /\ (Succeeded <=> ok)
    BY <1>1, <2>4, <2>5, <2>6, TopTells, BoolTells
  <2>8. Takes(script) = m + 1
    BY <1>1, <1>6, <2>3, KindsApart DEF Takes
  <2>9. Opens(b, script, phase) <=> ok
    BY <1>1, <1>6, KindsApart DEF Opens, ok
  <2> QED
    BY <1>2, <1>3, <2>4, <2>7, <2>8, <2>9
<1> QED
  BY <1>4, <1>5, <1>6 DEF IsTemplate

\* A witness program has pushed what is true.
LEMMA ProgramEnds ==
    ASSUME TypeInv, NEW b \in Seq(Item), Running(b), Ended, IsProgram(script)
    PROVE  Succeeded /\ Len(stack) = Len(b) + 2 /\ phase # "witness"
<1>1. script \in Seq(Chunk) /\ stack \in Seq(Item) /\ pc = Len(script)
  BY DEF TypeInv, MachineOK, Ended
<1>2. isWitnessProgram(script) /\ Len(script) = 2 /\ script[2].item.type = "hash"
  BY DEF IsProgram, isWitnessProgram
<1>3. PICK n \in Nat : n = Len(b)
  OBVIOUS
<1>4. ProgramRun(b) /\ pc = 2 /\ phase # "witness"
  BY <1>1, <1>2, KindsApart DEF Running, Kinds
<1>5. PICK x, y : x = script[1].item /\ y = script[2].item
  OBVIOUS
<1>6. Holds(b, n, <<x, y>>)
  BY <1>3, <1>4, <1>5 DEF ProgramRun
<1>7. Len(<<x, y>>) = 2 /\ <<x, y>>[2] = y /\ 2 \in 1 .. 2
  OBVIOUS
<1>8. Len(stack) = n + 2 /\ stack[n + 2] = y
  BY <1>6, <1>7 DEF Holds
<1>9. stack # <<>> /\ Top = y
  BY <1>8 DEF Top
<1>10. castToBool(y)
  BY <1>2, <1>5 DEF castToBool
<1> QED
  BY <1>3, <1>4, <1>8, <1>9, <1>10 DEF Succeeded

\* An output to the hash of a script has compared that with the top.
LEMMA ScriptHashEnds ==
    ASSUME TypeInv, NEW b \in Seq(Item), Running(b), Ended, isScriptHashOut(script)
    PROVE  /\ Len(b) >= 1 /\ Len(stack) = Len(b) /\ phase = "scriptPubkey"
           /\ Succeeded <=> Hash(b[Len(b)], "HASH160") = script[2].item
           /\ ~isWitnessProgram(script)
<1>1. script \in Seq(Chunk) /\ stack \in Seq(Item) /\ pc = Len(script)
  BY DEF TypeInv, MachineOK, Ended
<1>2. ~isWitnessProgram(script) /\ Len(script) = 3
  BY <1>1, KindsApart DEF isScriptHashOut
<1>3. PICK n \in Nat : n = Len(b)
  OBVIOUS
<1>4. ScriptHashRun(b) /\ pc = 3 /\ phase = "scriptPubkey"
  BY <1>1, <1>2, KindsApart DEF Running, Kinds, IsProgram
<1>5. PICK v \in BOOLEAN : v <=> Hash(b[n], "HASH160") = script[2].item
  OBVIOUS
<1>6. n >= 1 /\ Holds(b, n - 1, <<Bool(v)>>)
  <2>1. v = (Hash(b[n], "HASH160") = script[2].item)
    BY <1>5
  <2> QED
    BY <1>3, <1>4, <2>1 DEF ScriptHashRun
<1>7. n - 1 \in Nat
  BY <1>6
<1>8. Len(stack) = n - 1 + 1 /\ (Succeeded <=> v)
  BY <1>1, <1>6, <1>7, TopTells, BoolTells
<1> QED
  BY <1>2, <1>3, <1>4, <1>5, <1>6, <1>8

\* There are no other scripts that come to an end.
LEMMA EndKinds ==
    ASSUME NEW b, Running(b), Ended
    PROVE  IsTemplate(script) \/ IsProgram(script) \/ isScriptHashOut(script)
<1>1. ~(IsBad(script) /\ pc = 0)
  BY DEF IsBad, Ended
<1> QED
  BY <1>1 DEF Running, Kinds, IsTemplate

-----------------------------------------------------------------------------
\* What a verification under the standard flags comes to

\* A verdict that is the right one.
LEMMA VerdictRight ==
    ASSUME IsStandard, flags = StandardFlags, NEW v, Return(v), v = "accepted" <=> Authorised
    PROVE  StandardInv'
<1>1. /\ spend' = spend /\ verdicts' = Recorded(flags, v) /\ flags' = {} /\ phase' = "idle"
  BY DEF Return, Load
<1>2. Authorised' <=> Authorised
  BY <1>1, SpendSame
<1>3. verdicts'[StandardFlags] = v
  BY <1>1 DEF Recorded
<1>4. flags' # StandardFlags
  BY <1>1 DEF StandardFlags
<1>5. StandardExact'
  BY <1>2, <1>3 DEF StandardExact
<1> QED
  BY <1>4, <1>5 DEF StandardInv

\* What is given up is not authorised.
LEMMA RejectRight ==
    ASSUME IsStandard, flags = StandardFlags, Reject, ~Authorised
    PROVE  StandardInv'
<1>1. Return("rejected") /\ ~("rejected" = "accepted")
  BY DEF Reject
<1> QED
  BY <1>1, VerdictRight

\* What is left to look at after the last script is the witness, which only a
\* witness program uses.
LEMMA ConcludeMeans ==
    ASSUME IsStandard, flags = StandardFlags, NEW h, NEW copy, Conclude(h, copy)
    PROVE  Return(IF h \/ spend.witness = <<>> THEN "accepted" ELSE "rejected")
<1>1. /\ ~("CLEANSTACK" \in flags) /\ "WITNESS" \in flags /\ spend.hasWitness
  BY DEF StandardFlags, IsStandard
<1>2. Return(IF "WITNESS" \notin flags \/ h THEN "accepted"
             ELSE IF ~spend.hasWitness THEN "thrown"
             ELSE IF spend.witness # <<>> THEN "rejected" ELSE "accepted")
  BY <1>1 DEF Conclude
<1> DEFINE v == IF "WITNESS" \notin flags \/ h THEN "accepted"
                ELSE IF ~spend.hasWitness THEN "thrown"
                ELSE IF spend.witness # <<>> THEN "rejected" ELSE "accepted"
           w == IF h \/ spend.witness = <<>> THEN "accepted" ELSE "rejected"
<1>3. v = w
  BY <1>1
<1> QED
  BY <1>2, <1>3

\* What goes on.
LEMMA GoesOn ==
    ASSUME StandardInv, UNCHANGED <<spend, verdicts>>,
           IsStandard /\ flags' = StandardFlags => Underway'
    PROVE  StandardInv'
<1>1. /\ IsStandard' <=> IsStandard
      /\ Authorised' <=> Authorised
  BY SpendSame
<1>2. StandardExact => StandardExact'
  BY <1>1 DEF StandardExact
<1> QED
  BY <1>1, <1>2 DEF StandardInv

\* A script that is run goes on.
LEMMA RunsOn ==
    ASSUME StandardInv, UNCHANGED <<spend, verdicts>>, NEW b \in Bases,
           phase' # "scriptSig", Running(b)'
    PROVE  StandardInv'
<1>1. b \in Bases'
  BY SpendSame
<1>2. Underway'
  BY <1>1 DEF Underway
<1> QED
  BY <1>2, GoesOn

\* A script of a standard kind that is loaded on a stack.
LEMMA LoadRuns ==
    ASSUME NEW p, NEW code \in Seq(Chunk), NEW b \in Seq(Item), Load(p, code, b),
           \/ IsTemplate(code) \/ IsBad(code)
           \/ IsProgram(code) /\ p # "witness"
           \/ isScriptHashOut(code) /\ p = "scriptPubkey"
    PROVE  Plain' /\ Kinds(b)'
<1>1. /\ phase' = p /\ script' = code /\ stack' = b /\ pc' = 0
      /\ altstack' = <<>> /\ vfExec' = <<>> /\ pbegincodehash' = 0
      /\ multi' = NoMulti /\ nOpCount' = 0
  BY DEF Load
<1>2. Plain' /\ Straight'
  BY <1>1 DEF Plain, Straight
<1>3. Len(<<>>) = 0 /\ 1 .. 0 = {}
  OBVIOUS
<1>4. Holds(b, Len(b), <<>>)'
  BY <1>1, <1>3 DEF Holds
<1>5. KeyRun(b)' /\ KeyHashRun(b)' /\ ScriptHashRun(b)' /\ ProgramRun(b)'
  BY <1>1, <1>4 DEF KeyRun, KeyHashRun, ScriptHashRun, ProgramRun
<1>6. IsMultisigScript(code) => MultisigRun(b)'
  <2> SUFFICES ASSUME IsMultisigScript(code) PROVE MultisigRun(b)'
    OBVIOUS
  <2>1. 0 < Len(code)
    BY MultisigFields
  <2>2. MultisigPushed(b, 0)'
    BY <1>1, <1>3 DEF MultisigPushed
  <2>3. MultisigPushed(b, pc)'
    BY <1>1, <2>2 DEF MultisigPushed
  <2> QED
    BY <1>1, <2>1, <2>3 DEF MultisigRun
<1> QED
  BY <1>1, <1>2, <1>5, <1>6 DEF Kinds, IsTemplate

\* The two kinds of hashes of a program differ in size.
LEMMA HashesApart ==
    \A i, j \in Item : Hash(i, "SHA256") # Hash(j, "HASH160")
<1> SUFFICES ASSUME NEW i \in Item, NEW j \in Item
             PROVE  Hash(i, "SHA256") # Hash(j, "HASH160")
  OBVIOUS
<1>1. Size(Hash(i, "SHA256")) = 32
  BY HashSize DEF HashOps
<1>2. Size(Hash(j, "HASH160")) = 20
  BY HashSize DEF HashOps
<1> QED
  BY <1>1, <1>2

\* verifyWitnessProgram runs the script that the program asks for.
LEMMA WitnessRuns ==
    ASSUME TypeInv, StandardInv, IsStandard, flags = StandardFlags,
           NEW s \in Seq(Chunk), IsProgram(s), NEW copy, WitnessProgram(s, copy),
           Authorised <=> OpensWitness(s[2].item)
    PROVE  StandardInv'
<1> DEFINE w == spend.witness
           program == s[2].item
<1>1. /\ s[1].op # "NUM" /\ program.type = "hash" /\ spend.hasWitness
      /\ Size(program) \in {20, 32} /\ program \in Item
      /\ \A d \in ScriptsOf(program) : IsTemplate(d)
  <2>1. /\ Len(s) = 2 /\ s[1].op = "PUSH" /\ program.type = "hash"
        /\ \A d \in ScriptsOf(program) : IsTemplate(d)
    BY DEF IsProgram, isWitnessProgram
  <2>2. Size(program) \in {20, 32}
    BY <2>1 DEF Size
  <2>3. s[2] \in Chunk
    <3>1. 2 \in 1 .. Len(s)
      BY <2>1
    <3> QED
      BY <3>1, Z3
  <2> QED
    BY <2>1, <2>2, <2>3, ChunkFields DEF IsStandard
<1>2. w \in Seq(Item) /\ spend \in Spend
  BY ItemsType DEF TypeInv, SpendOK
<1> HIDE DEF program
<1>3. IF Size(program) = 32 /\ w # <<>> /\ program = Hash(w[Len(w)], "SHA256")
      THEN /\ Load("witness", Parsed(w[Len(w)]), SubSeq(w, 1, Len(w) - 1))
           /\ UNCHANGED <<spend, verdicts, flags>>
      ELSE IF Size(program) = 20 /\ Len(w) = 2
      THEN /\ Load("witness", <<Op("DUP"), Op("HASH160"), Push(program),
                                Op("EQUALVERIFY"), Op("CHECKSIG")>>, w)
           /\ UNCHANGED <<spend, verdicts, flags>>
      ELSE Reject
  BY <1>1 DEF WitnessProgram, program
<1>4. CASE w # <<>> /\ program = Hash(w[Len(w)], "SHA256")
  <2>1. PICK i \in Item, n \in Nat : i = w[Len(w)] /\ n = Len(w) /\ n > 0
    <3>1. Len(w) \in 1 .. Len(w)
      BY <1>2, <1>4
    <3>2. w[Len(w)] \in Item
      BY <1>2, <3>1
    <3> QED
      BY <1>2, <1>4, <3>2
  <2>2. Size(program) = 32
    BY <1>4, <2>1, HashSize DEF HashOps
  <2>a. Front(w) \in Seq(Item) /\ Len(Front(w)) = n - 1
    BY <1>2, <1>4, <2>1, FrontType
  <2>3. PICK b \in Seq(Item) : b = Front(w) /\ b = SubSeq(w, 1, n - 1) /\ Len(b) = n - 1
    BY <2>1, <2>a DEF Front
  <2>4. Load("witness", Parsed(i), b) /\ UNCHANGED <<spend, verdicts, flags>>
    BY <1>3, <1>4, <2>1, <2>2, <2>3
  <2>5. Parsed(i) \in Seq(Chunk) /\ (IsTemplate(Parsed(i)) \/ IsBad(Parsed(i)))
    BY <1>1, <1>4, <2>1, ParsedHash, ParsedType DEF HashOps
  <2>6. Plain' /\ Kinds(b)'
    BY <2>3, <2>4, <2>5, LoadRuns
  <2>7. phase' = "witness" /\ script' = Parsed(i) /\ spend' = spend
    BY <2>4 DEF Load
  <2>8. Source(b)'
    BY <2>3, <2>7 DEF Source, Front
  <2>9. OpensWitness(program) <=> /\ Opens(b, Parsed(i), "witness")
                                  /\ n - 1 = Takes(Parsed(i))
    <3>1. ~(n = 2 /\ program = Hash(w[2], "HASH160"))
      <4>1. n = 2 => w[2] \in Item
        BY <1>2, <2>1
      <4> QED
        BY <1>4, <2>1, <4>1, HashesApart
    <3> QED
      BY <1>4, <2>1, <2>3, <3>1 DEF OpensWitness
  <2>10. Pending(b)' <=> /\ Opens(b, Parsed(i), "witness")
                         /\ n - 1 = Takes(Parsed(i))
    <3>1. CASE IsTemplate(Parsed(i))
      <4>1. ~IsProgram(Parsed(i)) /\ ~isScriptHashOut(Parsed(i))
        BY <2>5, <3>1, KindsApart DEF IsTemplate, IsProgram
      <4> QED
        BY <2>3, <2>7, <3>1, <4>1 DEF Pending
    <3>2. CASE IsBad(Parsed(i))
      <4>1. /\ ~IsProgram(Parsed(i)) /\ ~isScriptHashOut(Parsed(i))
            /\ ~IsTemplate(Parsed(i))
        BY <2>5, <3>2, KindsApart DEF IsTemplate, IsProgram
      <4>2. ~Opens(b, Parsed(i), "witness")
        BY <4>1 DEF Opens, IsTemplate
      <4> QED
        BY <2>7, <4>1, <4>2 DEF Pending
    <3> QED
      BY <2>5, <3>1, <3>2
  <2>11. Authorised' <=> Pending(b)'
    BY <2>7, <2>9, <2>10, SpendSame DEF program
  <2>12. Running(b)'
    BY <2>6, <2>7, <2>8, <2>11 DEF Running
  <2>13. b \in Bases
    BY <2>3 DEF Bases
  <2> QED
    BY <2>4, <2>7, <2>12, <2>13, RunsOn
<1>5. CASE ~(w # <<>> /\ program = Hash(w[Len(w)], "SHA256")) /\ Size(program) = 20 /\ Len(w) = 2
  <2>a. PICK u \in Seq(Item) : u = w
    BY <1>2
  <2> DEFINE c == <<Op("DUP"), Op("HASH160"), Push(program), Op("EQUALVERIFY"), Op("CHECKSIG")>>
  <2>1. Load("witness", c, u) /\ UNCHANGED <<spend, verdicts, flags>>
    BY <1>3, <1>5, <2>a
  <2>2. /\ Len(c) = 5 /\ c[1].op = "DUP" /\ c[2].op = "HASH160" /\ c[3].op = "PUSH"
        /\ c[4].op = "EQUALVERIFY" /\ c[5].op = "CHECKSIG" /\ c[3].item = program
    BY DEF Op, Push
  <2>3. c \in Seq(Chunk)
    <3>1. /\ Op("DUP") \in Chunk /\ Op("HASH160") \in Chunk
          /\ Op("EQUALVERIFY") \in Chunk /\ Op("CHECKSIG") \in Chunk
      BY ChunkType DEF Ops, OtherOps, RewriteOps, StackOps, HashOps, TestOps
    <3>2. Push(program) \in Chunk
      BY <1>1, ChunkType
    <3> QED
      BY <3>1, <3>2
  <2> HIDE DEF c
  <2>4. IsKeyHashScript(c)
    BY <2>2 DEF IsKeyHashScript
  <2>5. Plain' /\ Kinds(u)'
    BY <2>1, <2>3, <2>4, LoadRuns DEF IsTemplate
  <2>6. phase' = "witness" /\ script' = c /\ spend' = spend
    BY <2>1 DEF Load
  <2>7. Source(u)'
    BY <2>6, <2>a DEF Source
  <2>8. OpensWitness(program) <=> /\ program = Hash(w[2], "HASH160")
                                  /\ SignedFor(w[1], w[2], "witness")
    BY <1>5 DEF OpensWitness
  <2>9. ~IsKeyScript(c) /\ ~IsMultisigScript(c) /\ ~IsProgram(c) /\ ~isScriptHashOut(c)
    BY <2>3, <2>4, KindsApart DEF IsProgram
  <2>10. Takes(c) = 2
    BY <2>4, <2>9 DEF Takes
  <2>11. OpensKeyHash(u, c, "witness") <=> /\ program = Hash(w[2], "HASH160")
                                           /\ SignedFor(w[1], w[2], "witness")
    BY <1>5, <2>2, <2>a DEF OpensKeyHash
  <2>12. Opens(u, c, "witness") <=> OpensKeyHash(u, c, "witness")
    BY <2>4, <2>9 DEF Opens
  <2>13. Pending(u)' <=> OpensKeyHash(u, c, "witness")
    BY <1>5, <2>4, <2>6, <2>9, <2>a, <2>10, <2>12 DEF Pending, IsTemplate
  <2>14. Authorised' <=> Pending(u)'
    BY <2>6, <2>8, <2>11, <2>13, SpendSame DEF program
  <2>15. Running(u)'
    BY <2>5, <2>6, <2>7, <2>14 DEF Running
  <2>16. u \in Bases
    BY <2>a DEF Bases
  <2> QED
    BY <2>1, <2>6, <2>15, <2>16, RunsOn
<1>6. CASE /\ ~(w # <<>> /\ program = Hash(w[Len(w)], "SHA256"))
           /\ ~(Size(program) = 20 /\ Len(w) = 2)
  <2>1. Reject
    BY <1>3, <1>6
  <2>2. ~(Len(w) = 2 /\ program = Hash(w[2], "HASH160"))
    <3>1. Len(w) = 2 => w[2] \in Item
      BY <1>2
    <3> QED
      BY <1>6, <3>1, HashSize DEF HashOps
  <2>3. ~OpensWitness(program)
    <3>1. Len(w) > 0 => w # <<>>
      OBVIOUS
    <3> QED
      BY <1>6, <2>2, <3>1 DEF OpensWitness
  <2> QED
    BY <2>1, <2>3, RejectRight DEF program
<1> QED
  BY <1>4, <1>5, <1>6

-----------------------------------------------------------------------------
\* The input

\* A push of the input, which ends the script only if the item is too long or
\* if it is no push at all.
LEMMA PushingStep ==
    ASSUME TypeInv, StandardInv, IsStandard, flags = StandardFlags, phase = "scriptSig", Step
    PROVE  StandardInv'
<1>1. Pushing
  BY DEF StandardInv, Underway
<1>2. /\ Plain /\ multi = NoMulti /\ nOpCount = 0 /\ script = spend.scriptSig
      /\ Len(stack) = pc
      /\ \A k \in 1 .. pc : stack[k] = Items[k] /\ Pushed(k)
  BY <1>1 DEF Pushing
<1>3. Reading /\ (Unreadable => Reject) /\ pc \in Nat /\ pc < Len(script) /\ Len(script) \in Nat
  BY <1>2, StepReads DEF TypeInv, MachineOK, Reading
<1>4. /\ pc + 1 \in DOMAIN spend.scriptSig /\ Current = spend.scriptSig[pc + 1]
      /\ Items[pc + 1] = Current.item /\ Current.op \in PushOps
  <2>1. /\ spend.scriptSig \in Seq(Chunk)
        /\ \A k \in 1 .. Len(Items) : Items[k] = spend.scriptSig[k].item
    BY ItemsType DEF TypeInv, SpendOK
  <2>2. pc + 1 \in DOMAIN spend.scriptSig /\ Current = spend.scriptSig[pc + 1]
    BY <1>2, <1>3, <2>1 DEF Current
  <2>3. Items[pc + 1] = Current.item
    BY <2>2 DEF Items
  <2>4. Current.op \in PushOps
    BY <2>2 DEF IsStandard, isPushOnly
  <2> QED
    BY <2>2, <2>3, <2>4
<1>5. Counted = 0
  BY <1>4 DEF Counted
<1>6. ASSUME ~Pushed(pc + 1) PROVE ~Authorised
  BY <1>4, <1>6 DEF Authorised, Delivered
<1>7. CASE Unreadable
  <2>1. Current.op \notin Disabled
    BY <1>4 DEF PushOps, Disabled
  <2>2. ~(nOpCount + Counted > MaxOps)
    BY <1>2, <1>5, LimitAssumption
  <2>3. ~Pushed(pc + 1)
    BY <1>4, <1>7, <2>1, <2>2 DEF Unreadable, Pushed
  <2> QED
    BY <1>3, <1>6, <1>7, <2>3, RejectRight
<1>8. CASE ~Unreadable /\ Current.op = "RESERVED"
  <2>1. Reject
    BY <1>2, <1>8, StepActs DEF Known
  <2>2. ~Pushed(pc + 1)
    BY <1>4, <1>8 DEF Pushed
  <2> QED
    BY <1>6, <2>1, <2>2, RejectRight
<1>9. CASE ~Unreadable /\ Current.op \in {"PUSH", "NUM"}
  <2>1. PICK x : x = Current.item
    OBVIOUS
  <2>2. Becomes(pc, <<x>>)
    BY <1>2, <1>9, <2>1, PushDoes
  <2>3. /\ Len(stack') = pc + 1 /\ stack'[pc + 1] = x
        /\ \A k \in 1 .. pc : stack'[k] = stack[k]
    BY <1>3, <2>2, BecomesFew
  <2>4. /\ UNCHANGED <<spend, verdicts, flags, phase, stackCopy, script>>
        /\ UNCHANGED <<altstack, vfExec, pbegincodehash, multi>>
        /\ pc' = pc + 1 /\ nOpCount' = 0
    BY <1>2, <1>5, <2>2 DEF Becomes, Executed, Advance
  <2>5. Pushed(pc + 1)
    BY <1>4, <1>9, <2>4 DEF Pushed, Unreadable
  <2>6. ASSUME NEW k \in 1 .. pc + 1 PROVE stack'[k] = Items[k] /\ Pushed(k)
    <3>1. CASE k = pc + 1
      BY <1>4, <2>1, <2>3, <2>5, <3>1
    <3>2. CASE k # pc + 1
      <4>1. k \in 1 .. pc
        BY <1>3, <3>2
      <4> QED
        BY <1>2, <2>3, <4>1
    <3> QED
      BY <3>1, <3>2
  <2>7. Items' = Items /\ \A k : Pushed(k)' <=> Pushed(k)
    BY <2>4 DEF Items, Pushed
  <2>8. \A k \in 1 .. pc' : stack'[k] = Items'[k] /\ Pushed(k)'
    BY <2>4, <2>6, <2>7
  <2>9. Pushing'
    BY <1>2, <2>3, <2>4, <2>8 DEF Pushing, Plain
  <2>10. Underway'
    BY <2>4, <2>9 DEF Underway
  <2> QED
    BY <2>4, <2>10, GoesOn
<1> QED
  BY <1>4, <1>7, <1>8, <1>9 DEF PushOps

\* The output is evaluated on what the input has pushed.
LEMMA InputEnds ==
    ASSUME TypeInv, StandardInv, IsStandard, flags = StandardFlags, EndScriptSig
    PROVE  StandardInv'
<1>1. /\ Ended /\ Evaluated /\ phase = "scriptSig"
      /\ stackCopy' = stack
      /\ Load("scriptPubkey", spend.scriptPubkey, stack)
      /\ UNCHANGED <<spend, verdicts, flags>>
  BY DEF EndScriptSig, StandardFlags
<1>2. Pushing /\ stack \in Seq(Item) /\ spend \in Spend
  BY <1>1 DEF StandardInv, Underway, TypeInv, MachineOK, SpendOK
<1>3. PICK b \in Seq(Item) : b = Items
  BY <1>2, ItemsType
<1>4. /\ Len(b) = Len(spend.scriptSig) /\ Len(stack) = Len(b)
      /\ \A k \in 1 .. Len(b) : stack[k] = b[k] /\ Pushed(k)
      /\ DOMAIN spend.scriptSig = 1 .. Len(b)
      /\ spend.scriptPubkey \in Seq(Chunk)
  BY <1>1, <1>2, <1>3, ItemsType DEF Pushing, Ended
<1>5. stack = b
  BY <1>2, <1>4
<1>6. Len(b) <= MaxStack
  <2>1. altstack = <<>> /\ Len(<<>>) = 0
    BY <1>2 DEF Pushing, Plain
  <2> QED
    BY <1>1, <1>4, <2>1, LimitAssumption DEF Evaluated
<1>7. Delivered
  BY <1>4, <1>6 DEF Delivered
<1>8. PICK out \in Seq(Chunk) : out = spend.scriptPubkey
  BY <1>4
<1>9. /\ phase' = "scriptPubkey" /\ script' = out /\ spend' = spend /\ Items' = b
      /\ stackCopy' = b
  BY <1>1, <1>3, <1>5, <1>8, SpendSame DEF Load
<1>10. Source(b)'
  BY <1>8, <1>9 DEF Source
<1>11. IsTemplate(out) \/ IsProgram(out) \/ isScriptHashOut(out)
  BY <1>8 DEF IsStandard
<1>12. Plain' /\ Kinds(b)'
  <2>1. Load("scriptPubkey", out, b)
    BY <1>1, <1>5, <1>8
  <2> QED
    BY <1>11, <2>1, LoadRuns
<1>13. Authorised' <=> Pending(b)'
  <2>1. Authorised' <=> Authorised
    BY <1>9, SpendSame
  <2>2. CASE IsTemplate(out)
    <3>1. ~isWitnessProgram(out) /\ ~isScriptHashOut(out) /\ ~IsProgram(out)
      BY <2>2, KindsApart DEF IsTemplate, IsProgram
    <3>2. Authorised <=> Opens(b, out, "scriptPubkey") /\ spend.witness = <<>>
      BY <1>3, <1>7, <1>8, <3>1 DEF Authorised
    <3>3. Pending(b)' <=> Opens(b, out, "scriptPubkey") /\ spend.witness = <<>>
      BY <1>9, <2>2, <3>1 DEF Pending
    <3> QED
      BY <2>1, <3>2, <3>3
  <2>3. CASE IsProgram(out)
    <3>1. isWitnessProgram(out) /\ ~isScriptHashOut(out) /\ ~IsTemplate(out)
      BY <2>3, KindsApart DEF IsTemplate, IsProgram
    <3>2. Authorised <=> b = <<>> /\ OpensWitness(out[2].item)
      BY <1>3, <1>7, <1>8, <3>1 DEF Authorised
    <3>3. Pending(b)' <=> b = <<>> /\ OpensWitness(out[2].item)'
      BY <1>9, <2>3, <3>1 DEF Pending, OpensWitness
    <3>4. OpensWitness(out[2].item)' <=> OpensWitness(out[2].item)
      BY <1>9 DEF OpensWitness
    <3> QED
      BY <2>1, <3>2, <3>3, <3>4
  <2>4. CASE isScriptHashOut(out)
    <3>1. ~isWitnessProgram(out) /\ ~IsTemplate(out) /\ ~IsProgram(out)
      BY <2>4, KindsApart DEF IsTemplate, IsProgram
    <3>2. Authorised <=> Redeems(Len(b))
      BY <1>3, <1>7, <1>8, <2>4, <3>1 DEF Authorised
    <3>3. Pending(b)' <=> Redeems(Len(b))'
      BY <1>9, <2>4, <3>1 DEF Pending
    <3>4. Redeems(Len(b))' <=> Redeems(Len(b))
      BY <1>3, <1>9 DEF Redeems, OpensWitness
    <3> QED
      BY <2>1, <3>2, <3>3, <3>4
  <2> QED
    BY <1>11, <2>2, <2>3, <2>4
<1>14. Running(b)'
  BY <1>6, <1>9, <1>10, <1>12, <1>13 DEF Running
<1>15. b \in Bases
  BY <1>3 DEF Bases
<1> QED
  BY <1>1, <1>9, <1>14, <1>15, RunsOn

-----------------------------------------------------------------------------
\* The scripts

\* Where a script of a standard kind started.
LEMMA RunFrom ==
    ASSUME TypeInv, StandardInv, IsStandard, flags = StandardFlags,
           phase \in {"scriptPubkey", "redeemScript", "witness"}
    PROVE  \E b \in Seq(Item) : b \in Bases /\ Running(b)
<1>1. PICK b \in Bases : Running(b)
  BY DEF StandardInv, Underway
<1>2. b \in Seq(Item)
  BY BasesType DEF TypeInv, SpendOK
<1> QED
  BY <1>1, <1>2

\* Stacks that are too large at the end were too large for the input, or for
\* what opens the script.
LEMMA BadEnds ==
    ASSUME TypeInv, StandardInv, IsStandard, flags = StandardFlags, EndBad
    PROVE  StandardInv'
<1>1. Ended /\ ~Evaluated /\ Reject
  BY DEF EndBad
<1>2. MaxStack \in Nat /\ 2 <= MaxStack
  BY LimitAssumption
<1>3. ASSUME Plain PROVE ~(Len(stack) <= MaxStack)
  <2>1. altstack = <<>> /\ vfExec = <<>> /\ Len(<<>>) = 0
    BY <1>3 DEF Plain
  <2>2. stack \in Seq(Item)
    BY DEF TypeInv, MachineOK
  <2> QED
    BY <1>1, <1>2, <2>1, <2>2 DEF Evaluated
<1>4. CASE phase = "scriptSig"
  <2>1. Pushing
    BY <1>4 DEF StandardInv, Underway
  <2>2. Len(stack) = Len(spend.scriptSig) /\ Plain
    BY <1>1, <2>1 DEF Pushing, Ended
  <2>3. ~Delivered
    BY <1>3, <2>2 DEF Delivered
  <2> QED
    BY <1>1, <2>3, RejectRight DEF Authorised
<1>5. CASE phase \in {"scriptPubkey", "redeemScript", "witness"}
  <2>1. PICK b \in Seq(Item) : Running(b)
    BY <1>5, RunFrom
  <2>2. /\ Plain /\ (Authorised <=> Pending(b)) /\ (phase # "witness" => Len(b) <= MaxStack)
        /\ Len(b) \in Nat /\ script \in Seq(Chunk)
    BY <2>1 DEF Running, TypeInv, MachineOK
  <2>3. ~(Len(stack) <= MaxStack)
    BY <1>3, <2>2
  <2>4. CASE IsTemplate(script)
    <3>1. PICK t \in Nat : t = Takes(script) /\ t > 0 /\ t <= Len(b) /\ Len(stack) = Len(b) - t + 1
      BY <1>1, <2>1, <2>4, TemplateEnds
    <3>2. phase = "witness"
      <4>1. Len(stack) <= Len(b)
        BY <2>2, <3>1
      <4> QED
        BY <1>2, <2>2, <2>3, <3>1, <4>1
    <3>3. Len(b) # t
      BY <1>2, <2>3, <3>1
    <3>4. ~IsProgram(script) /\ ~isScriptHashOut(script)
      BY <2>2, <2>4, KindsApart DEF IsTemplate, IsProgram
    <3>5. ~Pending(b)
      BY <3>1, <3>2, <3>3, <3>4 DEF Pending
    <3> QED
      BY <1>1, <2>2, <3>5, RejectRight
  <2>5. CASE IsProgram(script)
    <3>1. Len(stack) = Len(b) + 2
      BY <1>1, <2>1, <2>5, ProgramEnds
    <3>2. b # <<>>
      BY <1>2, <2>3, <3>1
    <3>3. ~Pending(b)
      BY <2>2, <2>5, <3>2, PendingMeans
    <3> QED
      BY <1>1, <2>2, <3>3, RejectRight
  <2>6. CASE isScriptHashOut(script)
    BY <1>1, <2>1, <2>2, <2>3, <2>6, ScriptHashEnds
  <2> QED
    BY <1>1, <2>1, <2>4, <2>5, <2>6, EndKinds
<1> QED
  BY <1>1, <1>4, <1>5 DEF Ended, TypeInv, SpendOK, Phase

\* A script to a key, to its hash, or to m of n keys that is not in a witness
\* decides the spend; the witness must be empty.
LEMMA TemplateDecides ==
    ASSUME TypeInv, IsStandard, flags = StandardFlags, NEW b \in Seq(Item), Running(b), Ended,
           IsTemplate(script), phase # "witness",
           IF Succeeded THEN \E copy : Conclude(FALSE, copy) ELSE Reject
    PROVE  StandardInv'
<1>1. Succeeded <=> Opens(b, script, phase)
  BY TemplateEnds
<1>2. ~IsProgram(script) /\ ~isScriptHashOut(script)
  BY KindsApart DEF IsTemplate, IsProgram, TypeInv, MachineOK
<1>3. Authorised <=> Opens(b, script, phase) /\ spend.witness = <<>>
  BY <1>2 DEF Running, Pending
<1>4. CASE Succeeded
  <2>1. PICK copy : Conclude(FALSE, copy)
    BY <1>4
  <2> DEFINE v == IF FALSE \/ spend.witness = <<>> THEN "accepted" ELSE "rejected"
  <2>2. Return(v)
    BY <2>1, ConcludeMeans
  <2>3. v = "accepted" <=> Authorised
    BY <1>1, <1>3, <1>4
  <2> HIDE DEF v
  <2> QED
    BY <2>2, <2>3, VerdictRight
<1>5. CASE ~Succeeded
  BY <1>1, <1>3, <1>5, RejectRight
<1> QED
  BY <1>4, <1>5

\* The end of a witness, which leaves one item.
LEMMA WitnessEnds ==
    ASSUME TypeInv, StandardInv, IsStandard, flags = StandardFlags, EndWitness
    PROVE  StandardInv'
<1>1. /\ Ended /\ phase = "witness"
      /\ IF Len(stack) = 1 /\ castToBool(Top) THEN Conclude(TRUE, stackCopy) ELSE Reject
  BY DEF EndWitness
<1>2. PICK b \in Seq(Item) : Running(b)
  BY <1>1, RunFrom
<1>3. script \in Seq(Chunk) /\ stack \in Seq(Item)
  BY DEF TypeInv, MachineOK
<1>4. IsTemplate(script)
  <2>1. ~IsProgram(script)
    BY <1>1, <1>2, ProgramEnds
  <2>2. ~isScriptHashOut(script)
    BY <1>1, <1>2, ScriptHashEnds
  <2> QED
    BY <1>1, <1>2, <2>1, <2>2, EndKinds
<1>5. PICK t \in Nat, n \in Nat :
         t = Takes(script) /\ t > 0 /\ n = Len(b) /\ t <= n /\ Len(stack) = n - t + 1
  BY <1>1, <1>2, <1>4, TemplateEnds
<1>6. Succeeded <=> Opens(b, script, phase)
  BY <1>1, <1>2, <1>4, TemplateEnds
<1>7. Len(stack) = 1 <=> n = t
  BY <1>5
<1>8. stack # <<>>
  BY <1>3, <1>5
<1>9. ~IsProgram(script) /\ ~isScriptHashOut(script)
  BY <1>3, <1>4, KindsApart DEF IsTemplate, IsProgram
<1>10. Authorised <=> Opens(b, script, phase) /\ n = t
  BY <1>1, <1>2, <1>4, <1>5, <1>9 DEF Running, Pending
<1>11. Len(stack) = 1 /\ castToBool(Top) <=> Authorised
  BY <1>6, <1>7, <1>8, <1>10 DEF Succeeded
<1>12. CASE Authorised
  <2>1. Conclude(TRUE, stackCopy)
    BY <1>1, <1>11, <1>12
  <2> DEFINE v == IF TRUE \/ spend.witness = <<>> THEN "accepted" ELSE "rejected"
  <2>2. Return(v) /\ v = "accepted"
    BY <2>1, ConcludeMeans
  <2> HIDE DEF v
  <2> QED
    BY <1>12, <2>2, VerdictRight
<1>13. CASE ~Authorised
  BY <1>1, <1>11, <1>13, RejectRight
<1> QED
  BY <1>12, <1>13

\* The end of the script that the input held.
LEMMA RedeemEnds ==
    ASSUME TypeInv, StandardInv, IsStandard, flags = StandardFlags, EndRedeemScript
    PROVE  StandardInv'
<1>1. /\ Ended /\ phase = "redeemScript"
      /\ IF ~Succeeded THEN Reject
         ELSE IF isWitnessProgram(script)
         THEN IF /\ Len(spend.scriptSig) = 1 /\ spend.scriptSig[1].minimal
                 /\ Parsed(spend.scriptSig[1].item) = script
              THEN WitnessProgram(script, stack)
              ELSE Reject
         ELSE Conclude(FALSE, stack)
  BY DEF EndRedeemScript, StandardFlags
<1>2. PICK b \in Seq(Item) : Running(b)
  BY <1>1, RunFrom
<1>3. script \in Seq(Chunk) /\ spend \in Spend
  BY DEF TypeInv, MachineOK, SpendOK
<1>4. ~isScriptHashOut(script)
  BY <1>1, <1>2, ScriptHashEnds
<1>5. CASE IsTemplate(script)
  <2>1. ~isWitnessProgram(script)
    BY <1>3, <1>5, KindsApart DEF IsTemplate
  <2> QED
    BY <1>1, <1>2, <1>5, <2>1, TemplateDecides
<1>6. CASE IsProgram(script)
  <2>1. Succeeded /\ isWitnessProgram(script)
    BY <1>1, <1>2, <1>6, ProgramEnds DEF IsProgram
  <2>2. /\ Items # <<>> /\ script = Parsed(Items[Len(Items)]) /\ b = Front(Items)
    BY <1>1, <1>2 DEF Running, Source
  <2>3. PICK n \in Nat : n = Len(Items) /\ n = Len(spend.scriptSig) /\ n > 0 /\ Len(b) = n - 1
    <3>1. Items \in Seq(Item) /\ Len(Items) = Len(spend.scriptSig)
      BY <1>3, ItemsType
    <3>2. Len(b) = Len(Items) - 1
      BY <2>2, <3>1, FrontType
    <3>3. Len(Items) \in Nat /\ Len(Items) > 0
      BY <2>2, <3>1
    <3> QED
      BY <3>1, <3>2, <3>3
  <2>4. b = <<>> <=> n = 1
    <3>1. b = <<>> <=> Len(b) = 0
      OBVIOUS
    <3>2. Len(b) = 0 <=> n = 1
      BY <2>3
    <3> QED
      BY <3>1, <3>2
  <2>5. n = 1 => Parsed(spend.scriptSig[1].item) = script
    <3>1. n = 1 => Items[1] = spend.scriptSig[1].item
      BY <1>3, <2>3, ItemsType
    <3> QED
      BY <2>2, <2>3, <3>1
  <2>6. Authorised <=> /\ n = 1 /\ spend.scriptSig[1].minimal
                       /\ OpensWitness(script[2].item)
    <3>1. Authorised <=> Pending(b)
      BY <1>2 DEF Running
    <3> QED
      BY <1>1, <1>3, <1>6, <2>4, <3>1, PendingMeans
  <2>7. CASE n = 1 /\ spend.scriptSig[1].minimal
    <3>1. WitnessProgram(script, stack)
      BY <1>1, <2>1, <2>3, <2>5, <2>7
    <3>2. Authorised <=> OpensWitness(script[2].item)
      BY <2>6, <2>7
    <3> QED
      BY <1>3, <1>6, <3>1, <3>2, WitnessRuns
  <2>8. CASE ~(n = 1 /\ spend.scriptSig[1].minimal)
    BY <1>1, <2>1, <2>3, <2>6, <2>8, RejectRight
  <2> QED
    BY <2>7, <2>8
<1> QED
  BY <1>1, <1>2, <1>4, <1>5, <1>6, EndKinds

\* The script behind a hash is evaluated on what lies below it in the input.
LEMMA ScriptHashGoesOn ==
    ASSUME TypeInv, StandardInv, IsStandard, flags = StandardFlags,
           NEW b \in Seq(Item), Running(b), Ended, phase = "scriptPubkey",
           isScriptHashOut(script), Succeeded,
           Load("redeemScript", Parsed(stackCopy[Len(stackCopy)]),
                SubSeq(stackCopy, 1, Len(stackCopy) - 1)),
           UNCHANGED <<spend, verdicts, flags>>
    PROVE  StandardInv'
<1>1. /\ script = spend.scriptPubkey /\ b = Items /\ stackCopy = b
      /\ Len(b) <= MaxStack /\ (Authorised <=> Pending(b)) /\ script \in Seq(Chunk)
  BY DEF Running, Source, TypeInv, MachineOK
<1>2. /\ Len(b) >= 1 /\ Hash(b[Len(b)], "HASH160") = script[2].item
      /\ ~isWitnessProgram(script)
  BY ScriptHashEnds
<1>3. PICK n \in Nat, i \in Item : n = Len(b) /\ n >= 1 /\ i = b[n]
  <2>1. Len(b) \in Nat /\ Len(b) \in 1 .. Len(b)
    BY <1>2
  <2>2. b[Len(b)] \in Item
    BY <2>1
  <2> QED
    BY <1>2, <2>1, <2>2
<1>4. PICK f \in Seq(Item) : f = Front(b) /\ f = SubSeq(b, 1, n - 1) /\ Len(f) = n - 1
  <2>1. Front(b) \in Seq(Item) /\ Len(Front(b)) = Len(b) - 1
    BY <1>3, FrontType
  <2> QED
    BY <1>3, <2>1 DEF Front
<1>5. PICK c \in Seq(Chunk) : c = Parsed(i)
  BY ParsedType
<1>6. Load("redeemScript", c, f)
  BY <1>1, <1>3, <1>4, <1>5
<1>7. IsTemplate(c) \/ IsProgram(c) \/ IsBad(c)
  <2>1. c \in ScriptsOf(script[2].item) \/ IsBad(c)
    BY <1>2, <1>3, <1>5, ParsedHash DEF HashOps
  <2>2. \A d \in ScriptsOf(script[2].item) : IsTemplate(d) \/ IsProgram(d)
    <3>1. ~IsTemplate(script) /\ ~IsProgram(script)
      BY <1>1, KindsApart DEF IsTemplate, IsProgram
    <3> QED
      BY <1>1, <3>1 DEF IsStandard
  <2> QED
    BY <2>1, <2>2
<1>8. Plain' /\ Kinds(f)'
  BY <1>6, <1>7, LoadRuns
<1>9. /\ phase' = "redeemScript" /\ script' = c /\ spend' = spend /\ Items' = b
  BY <1>1, <1>6, SpendSame DEF Load
<1>10. Source(f)'
  <2>1. b # <<>>
    BY <1>3
  <2> QED
    BY <1>3, <1>4, <1>5, <1>9, <2>1 DEF Source, Front
<1>11. Authorised <=> Redeems(n)
  BY <1>1, <1>3, PendingMeans
<1>12. Redeems(n) <=> IF isWitnessProgram(c)
                      THEN n = 1 /\ spend.scriptSig[1].minimal /\ OpensWitness(c[2].item)
                      ELSE Opens(f, c, "redeemScript") /\ spend.witness = <<>>
  BY <1>1, <1>2, <1>3, <1>4, <1>5 DEF Redeems
<1>13. Pending(f)' <=> Redeems(n)
  <2>1. CASE IsTemplate(c)
    <3>1. ~isWitnessProgram(c) /\ ~isScriptHashOut(c) /\ ~IsProgram(c)
      BY <2>1, KindsApart DEF IsTemplate, IsProgram
    <3>2. Pending(f)' <=> Opens(f, c, "redeemScript") /\ spend.witness = <<>>
      BY <1>9, <2>1, <3>1 DEF Pending
    <3> QED
      BY <1>12, <3>1, <3>2
  <2>2. CASE IsProgram(c)
    <3>1. isWitnessProgram(c) /\ ~isScriptHashOut(c) /\ ~IsTemplate(c)
      BY <2>2, KindsApart DEF IsTemplate, IsProgram
    <3>2. OpensWitness(c[2].item)' <=> OpensWitness(c[2].item)
      BY <1>9 DEF OpensWitness
    <3>3. Pending(f)' <=> f = <<>> /\ OpensWitness(c[2].item)' /\ spend.scriptSig[1].minimal
      BY <1>9, <2>2, <3>1 DEF Pending, OpensWitness
    <3>4. f = <<>> <=> Len(f) = 0
      OBVIOUS
    <3>5. Len(f) = 0 <=> n = 1
      BY <1>3, <1>4
    <3> QED
      BY <1>12, <3>1, <3>2, <3>3, <3>4, <3>5
  <2>3. CASE IsBad(c)
    <3>1. ~isWitnessProgram(c) /\ ~isScriptHashOut(c) /\ ~IsProgram(c) /\ ~IsTemplate(c)
      BY <2>3, KindsApart DEF IsTemplate, IsProgram
    <3>2. ~Opens(f, c, "redeemScript")
      BY <3>1 DEF Opens, IsTemplate
    <3>3. ~Pending(f)'
      BY <1>9, <3>1 DEF Pending
    <3> QED
      BY <1>12, <3>1, <3>2, <3>3
  <2> QED
    BY <1>7, <2>1, <2>2, <2>3
<1>14. Authorised' <=> Authorised
  BY SpendSame
<1>15. Len(f) <= MaxStack
  BY <1>1, <1>3, <1>4, LimitAssumption
<1>16. Running(f)'
  BY <1>8, <1>9, <1>10, <1>11, <1>13, <1>14, <1>15 DEF Running
<1>17. f \in Bases
  BY <1>1, <1>4 DEF Bases
<1> QED
  BY <1>9, <1>16, <1>17, RunsOn

\* The end of the output.
LEMMA OutputEnds ==
    ASSUME TypeInv, StandardInv, IsStandard, flags = StandardFlags, EndScriptPubkey
    PROVE  StandardInv'
<1>1. /\ Ended /\ phase = "scriptPubkey" /\ isPushOnly(spend.scriptSig)
      /\ IF ~Succeeded THEN Reject
         ELSE IF isWitnessProgram(script)
         THEN IF spend.scriptSig # <<>> THEN Reject ELSE WitnessProgram(script, stackCopy)
         ELSE IF isScriptHashOut(script)
         THEN /\ Load("redeemScript", Parsed(stackCopy[Len(stackCopy)]),
                      SubSeq(stackCopy, 1, Len(stackCopy) - 1))
              /\ UNCHANGED <<spend, verdicts, flags>>
         ELSE Conclude(FALSE, stackCopy)
  BY DEF EndScriptPubkey, StandardFlags, IsStandard
<1>2. PICK b \in Seq(Item) : Running(b)
  BY <1>1, RunFrom
<1>3. /\ script \in Seq(Chunk) /\ spend \in Spend /\ (Authorised <=> Pending(b))
      /\ b = Items /\ script = spend.scriptPubkey
  BY <1>1, <1>2 DEF TypeInv, MachineOK, SpendOK, Running, Source
<1>4. CASE IsTemplate(script)
  <2>1. ~isWitnessProgram(script) /\ ~isScriptHashOut(script)
    BY <1>3, <1>4, KindsApart DEF IsTemplate
  <2> QED
    BY <1>1, <1>2, <1>4, <2>1, TemplateDecides
<1>5. CASE IsProgram(script)
  <2>1. Succeeded /\ isWitnessProgram(script)
    BY <1>1, <1>2, <1>5, ProgramEnds DEF IsProgram
  <2>2. Authorised <=> b = <<>> /\ OpensWitness(script[2].item)
    BY <1>1, <1>3, <1>5, PendingMeans
  <2>3. b = <<>> <=> spend.scriptSig = <<>>
    <3>1. Len(b) = Len(spend.scriptSig) /\ spend.scriptSig \in Seq(Chunk)
      BY <1>3, ItemsType
    <3>2. b = <<>> <=> Len(b) = 0
      OBVIOUS
    <3>3. spend.scriptSig = <<>> <=> Len(spend.scriptSig) = 0
      BY <3>1
    <3> QED
      BY <3>1, <3>2, <3>3
  <2>4. CASE spend.scriptSig = <<>>
    <3>1. WitnessProgram(script, stackCopy)
      BY <1>1, <2>1, <2>4
    <3>2. Authorised <=> OpensWitness(script[2].item)
      BY <2>2, <2>3, <2>4
    <3> QED
      BY <1>3, <1>5, <3>1, <3>2, WitnessRuns
  <2>5. CASE spend.scriptSig # <<>>
    BY <1>1, <2>1, <2>2, <2>3, <2>5, RejectRight
  <2> QED
    BY <2>4, <2>5
<1>6. CASE isScriptHashOut(script)
  <2>1. ~isWitnessProgram(script)
    BY <1>3, <1>6, KindsApart
  <2>2. CASE Succeeded
    BY <1>1, <1>2, <1>6, <2>1, <2>2, ScriptHashGoesOn
  <2>3. CASE ~Succeeded
    <3>1. ~(Hash(b[Len(b)], "HASH160") = script[2].item)
      BY <1>1, <1>2, <1>6, <2>3, ScriptHashEnds
    <3>2. ~Redeems(Len(b))
      BY <1>3, <3>1 DEF Redeems
    <3>3. ~Authorised
      BY <1>3, <1>6, <3>2, PendingMeans
    <3> QED
      BY <1>1, <2>3, <3>3, RejectRight
  <2> QED
    BY <2>2, <2>3
<1> QED
  BY <1>1, <1>2, <1>4, <1>5, <1>6, EndKinds

-----------------------------------------------------------------------------
\* Every step

\* A step within a verification answers it, or leaves the verdicts alone.
Answers == \E v : verdicts' = Recorded(flags, v) /\ flags' = {}
Within == spend' = spend /\ (UNCHANGED <<verdicts, flags>> \/ Answers)

\* Every way in which a verification returns is an answer.
LEMMA ReturnAnswers ==
    /\ \A v : Return(v) => Within
    /\ Reject => Within
    /\ \A h, copy : Conclude(h, copy) => Within
  BY DEF Return, Reject, Conclude, Within, Answers

\* verifyWitnessProgram is within the verification.
LEMMA ProgramWithin ==
    ASSUME NEW s, NEW copy, WitnessProgram(s, copy)
    PROVE  Within
<1> DEFINE small == Size(s[2].item) \in {20, 32}
<1>1. UNCHANGED <<spend, verdicts, flags>> => Within
  BY DEF Within
<1>2. CASE s[1].op = "NUM" /\ "DISCOURAGE_WITNESS_PROGRAM" \in flags
  BY <1>2, ReturnAnswers DEF WitnessProgram
<1>3. CASE s[1].op = "NUM" /\ "DISCOURAGE_WITNESS_PROGRAM" \notin flags
  BY <1>3, ReturnAnswers DEF WitnessProgram
<1>4. CASE s[1].op # "NUM" /\ ~small
  BY <1>4, ReturnAnswers DEF WitnessProgram
<1>5. CASE s[1].op # "NUM" /\ small
  BY <1>1, <1>5, ReturnAnswers DEF WitnessProgram
<1> QED
  BY <1>2, <1>3, <1>4, <1>5

\* So is every step but the beginning of one.
LEMMA StepsWithin == Step \/ End => Within
<1> USE ReturnAnswers
<1>1. CASE StepUnreadable \/ StepBad
  BY <1>1 DEF StepUnreadable, StepBad
<1>2. CASE StepSkipped \/ StepElse \/ StepEndif \/ StepIf
  BY <1>2 DEF StepSkipped, StepElse, StepEndif, StepIf, Advance, Within
<1>3. CASE StepPush \/ StepRewrite \/ StepDepth \/ StepPick
  BY <1>3 DEF StepPush, StepRewrite, StepDepth, StepPick, Executed, Advance, Within
<1>4. CASE StepToAlt \/ StepFromAlt \/ StepTimelock \/ StepNop
  BY <1>4 DEF StepToAlt, StepFromAlt, StepTimelock, StepNop, Executed, Advance, Within
<1>5. CASE StepCodeSeparator \/ StepCheckSig
  BY <1>5 DEF StepCodeSeparator, StepCheckSig, Executed, Advance, Within
<1>6. CASE StepMultisig
  BY <1>6 DEF StepMultisig, Within
<1>7. CASE TrySignature \/ EndMultisig
  BY <1>7 DEF TrySignature, EndMultisig, Within
<1>8. CASE End
  BY <1>8, ProgramWithin DEF End, EndBad, EndScriptSig, EndScriptPubkey, EndRedeemScript,
                             EndWitness, Within
<1> QED
  BY <1>1, <1>2, <1>3, <1>4, <1>5, <1>6, <1>7, <1>8 DEF Step

\* A verification under other flags says nothing about the standard ones.
LEMMA OtherFlags ==
    ASSUME StandardInv, flags # StandardFlags, Step \/ End
    PROVE  StandardInv'
<1>1. Within
  BY StepsWithin
<1>2. CASE UNCHANGED <<verdicts, flags>>
  BY <1>1, <1>2, GoesOn DEF Within
<1>3. CASE Answers
  <2>1. PICK v : verdicts' = Recorded(flags, v) /\ flags' = {}
    BY <1>3 DEF Answers
  <2>2. /\ StandardFlags \in DOMAIN verdicts' => StandardFlags \in DOMAIN verdicts
        /\ StandardFlags \in DOMAIN verdicts =>
              verdicts'[StandardFlags] = verdicts[StandardFlags]
    BY <2>1 DEF Recorded
  <2>3. /\ IsStandard' <=> IsStandard
        /\ Authorised' <=> Authorised
    BY <1>1, SpendSame DEF Within
  <2>4. StandardExact => StandardExact'
    BY <2>2, <2>3 DEF StandardExact
  <2>5. flags' # StandardFlags
    BY <2>1 DEF StandardFlags
  <2> QED
    BY <2>3, <2>4, <2>5 DEF StandardInv
<1> QED
  BY <1>1, <1>2, <1>3 DEF Within

\* A verification begins with the input, on nothing.
LEMMA VerifyBegins ==
    ASSUME TypeInv, StandardInv, NEW F \in spend.under, Verify(F)
    PROVE  StandardInv'
<1>1. F \notin DOMAIN verdicts /\ phase = "idle"
  BY DEF Verify
<1>2. CASE "SIGPUSHONLY" \in F /\ ~isPushOnly(spend.scriptSig)
  <2>1. /\ verdicts' = Recorded(F, "rejected")
        /\ UNCHANGED <<spend, flags, phase>>
    BY <1>2 DEF Verify
  <2>2. F # StandardFlags
    BY <1>2 DEF StandardFlags
  <2>3. /\ StandardFlags \in DOMAIN verdicts' => StandardFlags \in DOMAIN verdicts
        /\ StandardFlags \in DOMAIN verdicts =>
              verdicts'[StandardFlags] = verdicts[StandardFlags]
    BY <2>1, <2>2 DEF Recorded
  <2>4. /\ IsStandard' <=> IsStandard
        /\ Authorised' <=> Authorised
    BY <2>1, SpendSame
  <2>5. StandardExact => StandardExact'
    BY <2>3, <2>4 DEF StandardExact
  <2>6. Underway'
    BY <1>1, <2>1 DEF Underway
  <2> QED
    BY <2>4, <2>5, <2>6 DEF StandardInv
<1>3. CASE ~("SIGPUSHONLY" \in F /\ ~isPushOnly(spend.scriptSig))
  <2>1. /\ flags' = F /\ Load("scriptSig", spend.scriptSig, <<>>)
        /\ UNCHANGED <<spend, verdicts>>
    BY <1>3 DEF Verify
  <2>2. Len(<<>>) = 0 /\ 1 .. 0 = {}
    OBVIOUS
  <2>3. Pushing'
    BY <2>1, <2>2 DEF Pushing, Plain, Load
  <2>4. Underway'
    BY <2>1, <2>3 DEF Underway, Load
  <2> QED
    BY <2>1, <2>4, GoesOn
<1> QED
  BY <1>2, <1>3

\* A step under the standard flags.
LEMMA StandardFlagsStep ==
    ASSUME TypeInv, MultisigExact, StandardInv, IsStandard, flags = StandardFlags, Step \/ End
    PROVE  StandardInv'
<1>1. CASE End
  BY <1>1, BadEnds, InputEnds, OutputEnds, RedeemEnds, WitnessEnds DEF End
<1>2. CASE Step /\ phase = "scriptSig"
  BY <1>2, PushingStep
<1>3. CASE Step /\ phase \in {"scriptPubkey", "redeemScript", "witness"}
  <2>1. PICK b \in Seq(Item) : b \in Bases /\ Running(b)
    BY <1>3, RunFrom
  <2>2. CASE Kept /\ Running(b)'
    <3>1. UNCHANGED <<spend, verdicts>> /\ phase' # "scriptSig"
      BY <1>3, <2>2 DEF Kept
    <3> QED
      BY <2>1, <2>2, <3>1, RunsOn
  <2>3. CASE Reject /\ ~Authorised
    BY <2>3, RejectRight, Zenon
  <2> QED
    BY <1>3, <2>1, <2>2, <2>3, RunningStep
<1>4. CASE Step /\ phase = "idle"
  <2>1. ~Reading /\ multi = NoMulti
    BY <1>4 DEF Reading, TypeInv, MultiOK
  <2>2. ~TrySignature /\ ~EndMultisig
    BY <2>1 DEF NoMulti, TrySignature, Trying, EndMultisig
  <2> QED
    BY <1>4, <2>1, <2>2, Zenon DEF Step, StepUnreadable, StepSkipped, StepPush, StepBad, StepIf,
       StepElse, StepEndif, StepRewrite, StepDepth, StepPick, StepToAlt, StepFromAlt,
       StepTimelock, StepNop, StepCodeSeparator, StepCheckSig, StepMultisig, Runs
<1> QED
  BY <1>1, <1>2, <1>3, <1>4 DEF TypeInv, SpendOK, Phase

\* Every step keeps the invariant.
LEMMA StandardStep ==
    ASSUME TypeInv, MultisigExact, StandardInv, [Next]_vars
    PROVE  StandardInv'
<1>1. ASSUME NEW F \in spend.under, Verify(F) PROVE StandardInv'
  BY <1>1, VerifyBegins
<1>2. CASE Step \/ End
  <2>1. CASE flags # StandardFlags
    BY <1>2, <2>1, OtherFlags
  <2>2. CASE flags = StandardFlags /\ IsStandard
    BY <1>2, <2>2, StandardFlagsStep
  <2>3. CASE ~IsStandard
    <3>1. ~IsStandard'
      BY <1>2, <2>3, StepsWithin, SpendSame DEF Within
    <3> QED
      BY <3>1 DEF StandardInv
  <2> QED
    BY <2>1, <2>2, <2>3
<1>3. CASE UNCHANGED vars
  <2>1. UNCHANGED <<spend, verdicts, flags, phase, stackCopy, script, pc, stack, altstack,
                    vfExec, nOpCount, pbegincodehash, multi>>
    BY <1>3 DEF vars, machine
  <2>2. Items' = Items /\ Bases' = Bases /\ (Authorised' <=> Authorised)
    BY <2>1, SpendSame
  <2>3. \A k : Pushed(k)' <=> Pushed(k)
    BY <2>1 DEF Pushed
  <2>4. Pushing => Pushing'
    BY <2>1, <2>2, <2>3 DEF Pushing, Plain
  <2>5. ASSUME NEW b, Running(b) PROVE Running(b)'
    <3>1. Kinds(b)'
      <4>1. Straight' <=> Straight
        BY <2>1 DEF Straight
      <4>2. KeyRun(b)' <=> KeyRun(b)
        BY <2>1 DEF KeyRun, Holds
      <4>3. KeyHashRun(b)' <=> KeyHashRun(b)
        BY <2>1 DEF KeyHashRun, Holds
      <4>4. ScriptHashRun(b)' <=> ScriptHashRun(b)
        BY <2>1 DEF ScriptHashRun, Holds
      <4>5. ProgramRun(b)' <=> ProgramRun(b)
        BY <2>1 DEF ProgramRun, Holds
      <4>6. MultisigLoop(b)' <=> MultisigLoop(b)
        BY <2>1 DEF MultisigLoop
      <4>7. MultisigRun(b)' <=> MultisigRun(b)
        BY <2>1, <4>6 DEF MultisigRun, MultisigPushed, Holds
      <4> QED
        BY <2>1, <2>5, <4>1, <4>2, <4>3, <4>4, <4>5, <4>7 DEF Running, Kinds
    <3>2. Kept
      BY <2>1, <2>5 DEF Kept, Running, Plain
    <3> QED
      BY <2>1, <2>5, <3>1, <3>2, KeptMeans DEF Running, Kept
  <2>6. Underway => Underway'
    BY <2>1, <2>2, <2>4, <2>5 DEF Underway
  <2> QED
    BY <2>1, <2>6, GoesOn DEF StandardInv
<1> QED
  BY <1>1, <1>2, <1>3 DEF Next

\* A standard output is spent exactly by the signatures it asks for, whatever is
\* verified, as often and under as many sets of flags as it is (interpreter.js,
\* verify, evaluate, step and verifyWitnessProgram).
THEOREM StandardOutputsExact == Spec => []StandardExact
<1>1. Init => StandardInv
  <2> SUFFICES ASSUME Init PROVE StandardInv
    OBVIOUS
  <2>1. DOMAIN verdicts = {} /\ flags # StandardFlags
    BY DEF Init, StandardFlags
  <2> QED
    BY <2>1 DEF StandardInv, StandardExact
<1>2. TypeInv /\ MultisigExact /\ StandardInv /\ [Next]_vars => StandardInv'
  BY StandardStep
<1>3. StandardInv => StandardExact
  BY DEF StandardInv, StandardExact
<1> QED
  BY <1>1, <1>2, <1>3, TypesHold, MultisigFindsMatch, PTL DEF Spec

=============================================================================
