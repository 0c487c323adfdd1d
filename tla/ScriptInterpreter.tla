------------------------- MODULE ScriptInterpreter -------------------------
(***************************************************************************)
(* The script interpreter of ducatuscore-lib (lib/script/interpreter.js;   *)
(* the copy in ducatuscore-lib-duc is the same file): verify, evaluate,    *)
(* step and verifyWitnessProgram.                                          *)
(*                                                                         *)
(* A behaviour takes one spend and verifies it a few times, each time with *)
(* a new Interpreter, another set of flags and the witness as it was: the  *)
(* stack of a program of a key hash is the array of the caller, who must   *)
(* give a copy to verify again.  One step of the model is one instruction, *)
(* one turn of the loop of OP_CHECKMULTISIG, or the end of a script, where *)
(* verify decides what is evaluated next.                                  *)
(*                                                                         *)
(* What is on the stack is told apart as far as an instruction can tell:   *)
(* numbers with their encoding, signatures, keys, hashes, scripts.  Hashes *)
(* do not collide.  A signature commits to the script it is checked in and *)
(* to the code separator it follows; findAndDelete finds nothing, as no    *)
(* script holds a signature of itself.  Only numbers have four bytes or    *)
(* less.  Scripts are shorter than 10000 bytes.                            *)
(***************************************************************************)
EXTENDS Integers, FiniteSets, Sequences

CONSTANTS Spends,            \* the spends to verify, by families
          Code,              \* the script behind each name of a script
          MaxOps,            \* 201: instructions that are no push
          MaxStack,          \* 1000: items on the two stacks
          MaxNum,            \* 2^31 - 1: the largest number of four bytes
          MaxWide,           \* the largest of five
          LocktimeThreshold, \* LOCKTIME_THRESHOLD
          MaxVerifications   \* bound on verifications of one spend

\* The limits leave room for an output to a key hash, of five instructions and
\* two items.
ASSUME LimitAssumption ==
    /\ {MaxOps, MaxStack, MaxNum, MaxWide, LocktimeThreshold} \subseteq Nat
    /\ 5 <= MaxOps /\ 2 <= MaxStack
    /\ 20 <= MaxNum /\ MaxNum <= MaxWide
ASSUME BoundAssumption == MaxVerifications \in Nat

VARIABLES spend,          \* what is verified
          verdicts,       \* history: what came of it, by set of flags
          flags,          \* the flags of this verification
          phase,          \* which script is evaluated
          script,         \* its chunks
          pc, stack, altstack, vfExec, nOpCount, pbegincodehash,
          stackCopy,      \* of verify: the stack P2SH goes on with
          multi,          \* the locals of OP_CHECKMULTISIG
          ran,            \* history: the instructions of script that took effect
          taken           \* history: those of them that opened a branch to run

machine == <<script, pc, stack, altstack, vfExec, nOpCount, pbegincodehash,
             multi, ran, taken>>
vars == <<spend, verdicts, flags, phase, stackCopy, machine>>

-----------------------------------------------------------------------------
\* What is on the stack

HashOps == {"RIPEMD160", "SHA1", "SHA256", "HASH160", "HASH256"}

\* A number is minimal, or has one more byte than it needs.  A hybrid key is an
\* uncompressed one behind the byte 6 or 7: strict parsing refuses it, and
\* parsing that is not strict takes it for the uncompressed one.  No parsing
\* takes a bad one.
Atom == [type : {"num"}, n : Int, minimal : BOOLEAN]
        \cup [type : {"sig"}, key : STRING, code : STRING \X Nat,
              form : {"plain", "highS", "hashtype", "lax"}]
        \cup [type : {"key"}, key : STRING,
              form : {"compressed", "uncompressed", "hybrid", "bad"}]
        \cup [type : {"script"}, name : DOMAIN Code]
        \cup [type : {"blob"}]  \* more than MAX_SCRIPT_ELEMENT_SIZE
Item == Atom \cup [type : {"hash"}, of : Atom, by : Seq(HashOps)]

Num(n) == [type |-> "num", n |-> n, minimal |-> TRUE]
Empty  == Num(0)
Bool(b) == IF b THEN Num(1) ELSE Empty

Hash(i, op) == IF i.type = "hash" THEN [i EXCEPT !.by = Append(@, op)]
               ELSE [type |-> "hash", of |-> i, by |-> <<op>>]

Size(i) ==
    CASE i.type = "num"    -> (IF i.n = 0 THEN 0 ELSE IF i.n <= MaxNum
                               THEN 1 ELSE 5) + (IF i.minimal THEN 0 ELSE 1)
      [] i.type = "sig"    -> 72
      [] i.type = "key"    -> IF i.form \in {"uncompressed", "hybrid"} THEN 65 ELSE 33
      [] i.type = "script" -> 50
      [] i.type = "blob"   -> 521
      [] i.type = "hash"   -> IF i.by[Len(i.by)] \in {"SHA256", "HASH256"}
                              THEN 32 ELSE 20

\* Zero is false in every encoding, the negative one included.
castToBool(i) == i.type = "num" => i.n # 0

\* fromScriptNumBuffer does not throw, with four bytes and with five.
IsNum(i) == /\ i.type = "num" /\ i.n \in (-MaxNum) .. MaxNum
            /\ "MINIMALDATA" \in flags => i.minimal
IsWide(i) == /\ i.type = "num" /\ i.n \in (-MaxWide) .. MaxWide
             /\ "MINIMALDATA" \in flags => i.minimal

-----------------------------------------------------------------------------
\* Scripts: sequences of chunks.  A push has its data, and whether it is the
\* shortest push of that data; NUM is OP_1NEGATE and OP_1 to OP_16; no other
\* chunk has data.

PushOps   == {"PUSH", "NUM", "RESERVED"}
CondOps   == {"IF", "NOTIF", "ELSE", "ENDIF", "VERIF", "VERNOTIF"}
Disabled  == {"CAT", "SUBSTR", "LEFT", "RIGHT", "INVERT", "AND", "OR", "XOR",
              "2MUL", "2DIV", "MUL", "DIV", "MOD", "LSHIFT", "RSHIFT"}
NopOps    == {"NOP1", "NOP4", "NOP5", "NOP6", "NOP7", "NOP8", "NOP9", "NOP10"}
UnaryOps  == {"1ADD", "1SUB", "NEGATE", "ABS", "NOT", "0NOTEQUAL"}
BinaryOps == {"ADD", "SUB", "BOOLAND", "BOOLOR", "NUMEQUAL", "NUMNOTEQUAL",
              "LESSTHAN", "GREATERTHAN", "LESSTHANOREQUAL",
              "GREATERTHANOREQUAL", "MIN", "MAX"}
StackOps  == {"2DROP", "2DUP", "3DUP", "2OVER", "2ROT", "2SWAP", "IFDUP",
              "DROP", "DUP", "NIP", "OVER", "ROT", "SWAP", "TUCK", "SIZE"}
TestOps   == {"VERIFY", "EQUAL", "EQUALVERIFY", "NUMEQUALVERIFY", "WITHIN"}
RewriteOps == UnaryOps \cup BinaryOps \cup StackOps \cup TestOps \cup HashOps
OtherOps  == {"DEPTH", "PICK", "ROLL", "TOALTSTACK", "FROMALTSTACK", "NOP",
              "CHECKLOCKTIMEVERIFY", "CHECKSEQUENCEVERIFY", "CODESEPARATOR",
              "CHECKSIG", "CHECKSIGVERIFY", "CHECKMULTISIG",
              "CHECKMULTISIGVERIFY", "VER", "RESERVED1", "RESERVED2", "RETURN"}
Ops == PushOps \cup CondOps \cup Disabled \cup NopOps \cup RewriteOps \cup OtherOps

Chunk == {c \in [op : Ops, item : Item, minimal : BOOLEAN] :
             /\ c.op = "NUM" => c.item \in {Num(n) : n \in {-1} \cup 1 .. 16}
             /\ c.op \notin {"PUSH", "NUM"} => c.item = Empty}

\* What verify is given: two scripts, a witness, the fields that the locktimes
\* look at, and the sets of flags to verify under.
Spend == [scriptSig : Seq(Chunk), scriptPubkey : Seq(Chunk), witness : Seq(Item),
          hasWitness : BOOLEAN, lockTime : Int, sequenceMax : BOOLEAN,
          under : SUBSET SUBSET STRING]

ASSUME DataAssumption ==
    /\ \A family \in Spends : family \subseteq Spend
    /\ \A name \in DOMAIN Code : Code[name] \in Seq(Chunk)

Op(o)       == [op |-> o, item |-> Empty, minimal |-> TRUE]
Push(i)     == [op |-> "PUSH", item |-> i, minimal |-> TRUE]
LongPush(i) == [op |-> "PUSH", item |-> i, minimal |-> FALSE]
OpNum(n)    == [op |-> "NUM", item |-> Num(n), minimal |-> TRUE]

isPushOnly(s) == \A k \in DOMAIN s : s[k].op \in PushOps

isScriptHashOut(s) ==
    /\ Len(s) = 3
    /\ s[1].op = "HASH160" /\ s[3].op = "EQUAL"
    /\ s[2].op = "PUSH" /\ s[2].minimal /\ Size(s[2].item) = 20

isWitnessProgram(s) ==
    /\ Len(s) = 2
    /\ s[1] = Push(Empty) \/ (s[1].op = "NUM" /\ s[1].item.n > 0)
    /\ s[2].op = "PUSH" /\ s[2].minimal /\ Size(s[2].item) \in 2 .. 40

\* fromBuffer: what is no script of Code stands for a bad opcode.
Parsed(i) == CASE i.type = "script" -> Code[i.name]
               [] i = Empty         -> <<>>
               [] OTHER             -> <<Op("VER")>>

-----------------------------------------------------------------------------
\* The state of an Interpreter

NoMulti == [at |-> "none"]
Multi == [at : {"trying"}, verify : BOOLEAN, sigs : Seq(Item),
          keys : Seq(Item), nSigs : Nat, nKeys : Nat,
          nSigsCount : Nat, nKeysCount : Nat, fSuccess : BOOLEAN]

Phase == {"idle", "scriptSig", "scriptPubkey", "redeemScript", "witness"}

\* Every part of an Interpreter and of verify keeps its type, the count of
\* instructions its limit, and what has run lies before pc (step, initialize).
TypeOK ==
    /\ DOMAIN verdicts \subseteq spend.under
    /\ \A F \in DOMAIN verdicts :
           verdicts[F] \in {"accepted", "rejected", "thrown"}
    /\ flags \in spend.under \cup {{}}
    /\ phase \in Phase
    /\ script \in Seq(Chunk)
    /\ pc \in 0 .. Len(script)
    /\ stack \in Seq(Item) /\ altstack \in Seq(Item)
    /\ vfExec \in Seq(BOOLEAN)
    /\ nOpCount \in 0 .. MaxOps
    /\ pbegincodehash \in 0 .. pc
    /\ stackCopy \in Seq(Item)
    /\ multi = NoMulti \/ multi \in Multi
    /\ ran \subseteq 1 .. pc /\ taken \subseteq ran

\* initialize and set: code starts on stack st.
Load(p, code, st) ==
    /\ phase' = p
    /\ script' = code /\ stack' = st
    /\ pc' = 0 /\ altstack' = <<>> /\ vfExec' = <<>> /\ nOpCount' = 0
    /\ pbegincodehash' = 0 /\ multi' = NoMulti
    /\ ran' = {} /\ taken' = {}

Init ==
    /\ \E family \in Spends : spend \in family
    /\ verdicts = <<>>
    /\ flags = {} /\ phase = "idle"
    /\ script = <<>> /\ stack = <<>>
    /\ pc = 0 /\ altstack = <<>> /\ vfExec = <<>> /\ nOpCount = 0
    /\ pbegincodehash = 0 /\ multi = NoMulti
    /\ ran = {} /\ taken = {}
    /\ stackCopy = <<>>

\* verify returns true or false, or throws.
Recorded(F, v) == [G \in DOMAIN verdicts \cup {F} |->
                       IF G = F THEN v ELSE verdicts[G]]

Return(v) ==
    /\ verdicts' = Recorded(flags, v)
    /\ flags' = {} /\ stackCopy' = <<>>
    /\ Load("idle", <<>>, <<>>)
    /\ UNCHANGED spend

Reject == Return("rejected")

-----------------------------------------------------------------------------
\* step: reading an instruction

Current   == script[pc + 1]
Executing == \A k \in DOMAIN vfExec : vfExec[k]  \* fExec
Counted   == IF Current.op \in PushOps THEN 0 ELSE 1

\* What ends the script even where nothing is executed.
Unreadable ==
    \/ Current.item.type = "blob"
    \/ nOpCount + Counted > MaxOps
    \/ Current.op \in Disabled

Reading == phase # "idle" /\ pc < Len(script) /\ multi = NoMulti
Runs(ops) == Reading /\ ~Unreadable /\ Executing /\ Current.op \in ops

Advance ==
    /\ pc' = pc + 1
    /\ nOpCount' = nOpCount + Counted
    /\ UNCHANGED <<spend, verdicts, flags, phase, stackCopy, script>>

Executed == Advance /\ ran' = ran \cup {pc + 1}

StepUnreadable == Reading /\ Unreadable /\ Reject

StepSkipped ==
    /\ Reading /\ ~Unreadable /\ ~Executing /\ Current.op \notin CondOps
    /\ Advance
    /\ UNCHANGED <<stack, altstack, vfExec, pbegincodehash, multi, ran, taken>>

StepPush ==
    /\ Runs({"PUSH", "NUM"})
    /\ IF Current.op = "PUSH" /\ "MINIMALDATA" \in flags /\ ~Current.minimal
       THEN Reject
       ELSE /\ Executed
            /\ stack' = Append(stack, Current.item)
            /\ UNCHANGED <<altstack, vfExec, pbegincodehash, multi, taken>>

\* default, which VERIF and VERNOTIF reach in a branch that is not executed.
StepBad ==
    /\ \/ Runs({"VER", "RESERVED", "RESERVED1", "RESERVED2", "RETURN"})
       \/ /\ Reading /\ ~Unreadable
          /\ Current.op \in {"VERIF", "VERNOTIF"}
    /\ Reject

-----------------------------------------------------------------------------
\* step: conditionals

Top == stack[Len(stack)]
Pop == SubSeq(stack, 1, Len(stack) - 1)

\* Of a condition, MINIMALIF wants the shortest encodings of 0 and 1.
Condition == /\ Len(stack) >= 1
             /\ "MINIMALIF" \in flags => Top \in {Empty, Num(1)}

IfUnpushed ==
    /\ Reading /\ ~Unreadable /\ Current.op \in {"IF", "NOTIF"}
    /\ IF Executing /\ ~Condition THEN Reject
       ELSE LET fValue == /\ Executing
                          /\ castToBool(Top) <=> (Current.op = "IF")
            IN  /\ Advance
                /\ vfExec' = IF Executing THEN Append(vfExec, fValue) ELSE vfExec
                /\ stack' = IF Executing THEN Pop ELSE stack
                /\ ran' = IF Executing THEN ran \cup {pc + 1} ELSE ran
                /\ taken' = IF fValue THEN taken \cup {pc + 1} ELSE taken
                /\ UNCHANGED <<altstack, pbegincodehash, multi>>

StepIf ==
    /\ Reading /\ ~Unreadable /\ Current.op \in {"IF", "NOTIF"}
    /\ IF Executing /\ ~Condition THEN Reject
       ELSE LET fValue == /\ Executing
                          /\ castToBool(Top) <=> (Current.op = "IF")
            IN  /\ Advance
                /\ vfExec' = Append(vfExec, fValue)
                /\ stack' = IF Executing THEN Pop ELSE stack
                /\ ran' = IF Executing THEN ran \cup {pc + 1} ELSE ran
                /\ taken' = IF fValue THEN taken \cup {pc + 1} ELSE taken
                /\ UNCHANGED <<altstack, pbegincodehash, multi>>

StepElse ==
    /\ Reading /\ ~Unreadable /\ Current.op = "ELSE"
    /\ IF vfExec = <<>> THEN Reject
       ELSE /\ Advance
            /\ vfExec' = [vfExec EXCEPT ![Len(vfExec)] = ~@]
            /\ UNCHANGED <<stack, altstack, pbegincodehash, multi, ran, taken>>

StepEndif ==
    /\ Reading /\ ~Unreadable /\ Current.op = "ENDIF"
    /\ IF vfExec = <<>> THEN Reject
       ELSE /\ Advance
            /\ vfExec' = SubSeq(vfExec, 1, Len(vfExec) - 1)
            /\ UNCHANGED <<stack, altstack, pbegincodehash, multi, ran, taken>>

-----------------------------------------------------------------------------
\* step: instructions that replace the top of the stack

\* How many items an instruction needs.
Arity(op) ==
    CASE op \in UnaryOps \cup HashOps
                \cup {"IFDUP", "DROP", "DUP", "SIZE", "VERIFY"} -> 1
      [] op \in {"3DUP", "ROT", "WITHIN"} -> 3
      [] op \in {"2OVER", "2SWAP"} -> 4
      [] op = "2ROT" -> 6
      [] OTHER -> 2

Unary(op, a) ==
    CASE op = "1ADD"      -> Num(a + 1)
      [] op = "1SUB"      -> Num(a - 1)
      [] op = "NEGATE"    -> Num(-a)
      [] op = "ABS"       -> Num(IF a < 0 THEN -a ELSE a)
      [] op = "NOT"       -> Bool(a = 0)
      [] op = "0NOTEQUAL" -> Bool(a # 0)

Binary(op, a, b) ==
    CASE op = "ADD"                -> Num(a + b)
      [] op = "SUB"                -> Num(a - b)
      [] op = "BOOLAND"            -> Bool(a # 0 /\ b # 0)
      [] op = "BOOLOR"             -> Bool(a # 0 \/ b # 0)
      [] op = "NUMEQUAL"           -> Bool(a = b)
      [] op = "NUMNOTEQUAL"        -> Bool(a # b)
      [] op = "LESSTHAN"           -> Bool(a < b)
      [] op = "GREATERTHAN"        -> Bool(a > b)
      [] op = "LESSTHANOREQUAL"    -> Bool(a <= b)
      [] op = "GREATERTHANOREQUAL" -> Bool(a >= b)
      [] op = "MIN"                -> Num(IF a < b THEN a ELSE b)
      [] op = "MAX"                -> Num(IF a > b THEN a ELSE b)

\* What the items x become; the last of x is the top of the stack.
Shuffled(op, x) ==
    CASE op = "2DROP" -> <<>>
      [] op = "2DUP"  -> x \o x
      [] op = "3DUP"  -> x \o x
      [] op = "2OVER" -> x \o <<x[1], x[2]>>
      [] op = "2ROT"  -> <<x[3], x[4], x[5], x[6], x[1], x[2]>>
      [] op = "2SWAP" -> <<x[3], x[4], x[1], x[2]>>
      [] op = "IFDUP" -> IF castToBool(x[1]) THEN x \o x ELSE x
      [] op = "DROP"  -> <<>>
      [] op = "DUP"   -> x \o x
      [] op = "NIP"   -> <<x[2]>>
      [] op = "OVER"  -> <<x[1], x[2], x[1]>>
      [] op = "ROT"   -> <<x[2], x[3], x[1]>>
      [] op = "SWAP"  -> <<x[2], x[1]>>
      [] op = "TUCK"  -> <<x[2], x[1], x[2]>>
      [] op = "SIZE"  -> <<x[1], Num(Size(x[1]))>>

\* No sequence when the instruction fails.
Rewrites(op, x) ==
    LET numbers == \A k \in DOMAIN x : IsNum(x[k])
    IN  CASE op \in StackOps  -> {Shuffled(op, x)}
          [] op \in HashOps   -> {<<Hash(x[1], op)>>}
          [] op \in UnaryOps  -> IF numbers THEN {<<Unary(op, x[1].n)>>} ELSE {}
          [] op \in BinaryOps -> IF numbers THEN {<<Binary(op, x[1].n, x[2].n)>>}
                                 ELSE {}
          [] op = "WITHIN"    -> IF numbers
                                 THEN {<<Bool(x[2].n <= x[1].n /\ x[1].n < x[3].n)>>}
                                 ELSE {}
          [] op = "EQUAL"     -> {<<Bool(x[1] = x[2])>>}
          [] op = "VERIFY"      -> IF castToBool(x[1]) THEN {<<>>} ELSE {}
          [] op = "EQUALVERIFY" -> IF x[1] = x[2] THEN {<<>>} ELSE {}
          [] op = "NUMEQUALVERIFY" -> IF numbers /\ x[1].n = x[2].n THEN {<<>>}
                                      ELSE {}

StepRewrite ==
    /\ Runs(RewriteOps)
    /\ LET n == Len(stack) - Arity(Current.op)
           after == IF n < 0 THEN {}
                    ELSE Rewrites(Current.op, SubSeq(stack, n + 1, Len(stack)))
       IN  IF after = {} THEN Reject
           ELSE /\ Executed
                /\ \E x \in after : stack' = SubSeq(stack, 1, n) \o x
                /\ UNCHANGED <<altstack, vfExec, pbegincodehash, multi, taken>>

-----------------------------------------------------------------------------
\* step: instructions that look at the rest of the stack, or beside it

StepDepth ==
    /\ Runs({"DEPTH"})
    /\ Executed
    /\ stack' = Append(stack, Num(Len(stack)))
    /\ UNCHANGED <<altstack, vfExec, pbegincodehash, multi, taken>>

StepPick ==
    /\ Runs({"PICK", "ROLL"})
    /\ IF ~(Len(stack) >= 2 /\ IsNum(Top) /\ Top.n \in 0 .. Len(Pop) - 1)
       THEN Reject
       ELSE LET k == Len(Pop) - Top.n
                below == SubSeq(Pop, 1, k - 1)
                above == SubSeq(Pop, k + 1, Len(Pop))
            IN  /\ Executed
                /\ stack' = (IF Current.op = "PICK" THEN Pop ELSE below \o above)
                             \o <<Pop[k]>>
                /\ UNCHANGED <<altstack, vfExec, pbegincodehash, multi, taken>>

StepToAlt ==
    /\ Runs({"TOALTSTACK"})
    /\ IF stack = <<>> THEN Reject
       ELSE /\ Executed
            /\ stack' = Pop /\ altstack' = Append(altstack, Top)
            /\ UNCHANGED <<vfExec, pbegincodehash, multi, taken>>

StepFromAlt ==
    /\ Runs({"FROMALTSTACK"})
    /\ IF altstack = <<>> THEN Reject
       ELSE /\ Executed
            /\ stack' = Append(stack, altstack[Len(altstack)])
            /\ altstack' = SubSeq(altstack, 1, Len(altstack) - 1)
            /\ UNCHANGED <<vfExec, pbegincodehash, multi, taken>>

\* SCRIPT_VERIFY_WITNESS and SCRIPT_VERIFY_CHECKSEQUENCEVERIFY are one bit.
Enables(op) == IF op = "CHECKLOCKTIMEVERIFY" THEN "CHECKLOCKTIMEVERIFY"
               ELSE "WITNESS"

\* checkLockTime, of an input whose sequence number is not the largest.
LockTimeMet(n) ==
    /\ (spend.lockTime < LocktimeThreshold) <=> (n < LocktimeThreshold)
    /\ n <= spend.lockTime
    /\ ~spend.sequenceMax

\* CHECKSEQUENCEVERIFY: only the flag that disables it lets a script go on, as
\* checkSequence says no to old versions and throws, for a name that is not
\* defined, on others.  The wide numbers of the model have that flag.
SequenceMet(n) == n > MaxNum

StepTimelock ==
    /\ Runs({"CHECKLOCKTIMEVERIFY", "CHECKSEQUENCEVERIFY"})
    /\ IF IF Enables(Current.op) \in flags
          THEN /\ stack # <<>> /\ IsWide(Top) /\ Top.n >= 0
               /\ IF Current.op = "CHECKLOCKTIMEVERIFY" THEN LockTimeMet(Top.n)
                  ELSE SequenceMet(Top.n)
          ELSE "DISCOURAGE_NOPS" \notin flags
       THEN /\ Executed
            /\ UNCHANGED <<stack, altstack, vfExec, pbegincodehash, multi, taken>>
       ELSE Reject

StepNop ==
    /\ Runs({"NOP"} \cup NopOps)
    /\ IF Current.op \in NopOps /\ "DISCOURAGE_NOPS" \in flags THEN Reject
       ELSE /\ Executed
            /\ UNCHANGED <<stack, altstack, vfExec, pbegincodehash, multi, taken>>

StepCodeSeparator ==
    /\ Runs({"CODESEPARATOR"})
    /\ Executed
    /\ pbegincodehash' = pc + 1
    /\ UNCHANGED <<stack, altstack, vfExec, multi, taken>>

-----------------------------------------------------------------------------
\* step: signatures

EncodingOneOf(sig) ==
    \/ sig = Empty
    \/ CASE "DERSIG" \in flags -> sig.type = "sig" /\ sig.form # "lax"
         [] "DERSIG" \notin flags /\ "LOW_S" \in flags ->
              sig.type = "sig" /\ sig.form \notin {"lax", "highS"}
         [] OTHER -> "STRICTENC" \in flags =>
              sig.type = "sig" /\ sig.form \notin {"lax", "hashtype"}

\* With LOW_S the type of the hash is not looked at.
checkSignatureEncoding(sig) ==
    \/ sig = Empty
    \/ /\ flags \cap {"DERSIG", "LOW_S", "STRICTENC"} # {} =>
              sig.type = "sig" /\ sig.form # "lax"
       /\ "LOW_S" \in flags => sig.form # "highS"
       /\ "STRICTENC" \in flags /\ "LOW_S" \notin flags => sig.form # "hashtype"

\* isValid parses strictly.  A key that fails ends the script; it is not skipped.
checkPubkeyEncoding(key) ==
    /\ "STRICTENC" \in flags =>
           key.type = "key" /\ key.form \in {"compressed", "uncompressed"}
    /\ "WITNESS_PUBKEYTYPE" \in flags /\ phase = "witness" =>
           key.type = "key" /\ key.form = "compressed"

VerifiesAnyCode(sig, key) ==
    /\ sig.type = "sig" /\ key.type = "key" /\ key.form # "bad"
    /\ sig.key = key.key

\* verifySignature, and the two conversions before it, which may throw; the one
\* of the key is not strict.
Verifies(sig, key) ==
    /\ sig.type = "sig" /\ key.type = "key" /\ key.form # "bad"
    /\ sig.key = key.key /\ sig.code = <<phase, pbegincodehash>>

StepCheckSig ==
    /\ Runs({"CHECKSIG", "CHECKSIGVERIFY"})
    /\ LET n == Len(stack)
           fSuccess == Verifies(stack[n - 1], stack[n])
           push == Current.op = "CHECKSIG"
       IN  IF \/ n < 2
              \/ ~checkSignatureEncoding(stack[n - 1])
              \/ ~checkPubkeyEncoding(stack[n])
              \/ /\ ~fSuccess
                 /\ ~push \/ ("NULLFAIL" \in flags /\ stack[n - 1] # Empty)
           THEN Reject
           ELSE /\ Executed
                /\ stack' = SubSeq(stack, 1, n - 2)
                            \o (IF push THEN <<Bool(fSuccess)>> ELSE <<>>)
                /\ UNCHANGED <<altstack, vfExec, pbegincodehash, multi, taken>>

-----------------------------------------------------------------------------
\* step: OP_CHECKMULTISIG.  sigs and keys are in the order they were pushed;
\* the loop takes them from the last one down, so that nSigsCount and
\* nKeysCount are also where it stands.

FitsKeyless(nKeys) == nOpCount + 1 <= MaxOps

\* The keys count as instructions, too.
Fits(nKeys) == nOpCount + 1 + nKeys <= MaxOps

StepMultisig ==
    /\ Runs({"CHECKMULTISIG", "CHECKMULTISIGVERIFY"})
    /\ LET n == Len(stack)
           nKeys == stack[n].n
           m == n - 1 - nKeys       \* where the number of signatures is
           nSigs == stack[m].n
       IN  IF /\ n >= 1 /\ IsNum(stack[n]) /\ nKeys \in 0 .. 20
              /\ Fits(nKeys)
              /\ m >= 1 /\ IsNum(stack[m]) /\ nSigs \in 0 .. nKeys
              /\ m - nSigs > 1
           THEN /\ multi' =
                    [at |-> "trying",
                     verify |-> Current.op = "CHECKMULTISIGVERIFY",
                     keys |-> [k \in 1 .. nKeys |-> stack[m + k]],
                     sigs |-> [k \in 1 .. nSigs |-> stack[m - 1 - nSigs + k]],
                     nSigs |-> nSigs, nKeys |-> nKeys,
                     nSigsCount |-> nSigs, nKeysCount |-> nKeys,
                     fSuccess |-> TRUE]
                /\ pc' = pc + 1 /\ ran' = ran \cup {pc + 1}
                /\ nOpCount' = nOpCount + 1 + nKeys
                /\ UNCHANGED <<spend, verdicts, flags, phase, stackCopy, script,
                               stack, altstack, vfExec, pbegincodehash, taken>>
           ELSE Reject

Trying == multi.at = "trying" /\ multi.fSuccess /\ multi.nSigsCount > 0

KeysAfterReuse(ok) == multi.nKeysCount - (IF ok THEN 0 ELSE 1)

\* A key is used up by a signature that is not its own, too.
KeysAfter(ok) == multi.nKeysCount - 1

TrySignature ==
    /\ Trying
    /\ LET sig == multi.sigs[multi.nSigsCount]
           key == multi.keys[multi.nKeysCount]
           fOk == Verifies(sig, key)
           sigsLeft == multi.nSigsCount - (IF fOk THEN 1 ELSE 0)
           keysLeft == KeysAfter(fOk)
       IN  IF ~checkSignatureEncoding(sig) \/ ~checkPubkeyEncoding(key)
           THEN Reject
           ELSE /\ multi' = [multi EXCEPT !.nSigsCount = sigsLeft,
                                         !.nKeysCount = keysLeft,
                                         !.fSuccess = sigsLeft <= keysLeft]
                /\ UNCHANGED <<spend, verdicts, flags, phase, stackCopy, script,
                               pc, stack, altstack, vfExec, nOpCount,
                               pbegincodehash, ran, taken>>

\* The arguments are popped, and the one more that was never looked at.
EndMultisig ==
    /\ multi.at = "trying" /\ ~Trying
    /\ LET dummy == Len(stack) - 2 - multi.nKeys - multi.nSigs
       IN  IF \/ /\ ~multi.fSuccess /\ "NULLFAIL" \in flags
                 /\ \E k \in 1 .. multi.nSigs : multi.sigs[k] # Empty
              \/ ("NULLDUMMY" \in flags /\ stack[dummy] # Empty)
              \/ (multi.verify /\ ~multi.fSuccess)
           THEN Reject
           ELSE /\ stack' = SubSeq(stack, 1, dummy - 1)
                            \o (IF multi.verify THEN <<>>
                                ELSE <<Bool(multi.fSuccess)>>)
                /\ multi' = NoMulti
                /\ UNCHANGED <<spend, verdicts, flags, phase, stackCopy, script,
                               pc, altstack, vfExec, nOpCount, pbegincodehash,
                               ran, taken>>

-----------------------------------------------------------------------------
\* verify

Verify(F) ==
    /\ phase = "idle"
    /\ Cardinality(DOMAIN verdicts) < MaxVerifications
    /\ F \in spend.under \ DOMAIN verdicts
    /\ IF "SIGPUSHONLY" \in F /\ ~isPushOnly(spend.scriptSig)
       THEN /\ verdicts' = Recorded(F, "rejected")
            /\ UNCHANGED <<spend, flags, phase, stackCopy, machine>>
       ELSE /\ flags' = F
            /\ Load("scriptSig", spend.scriptSig, <<>>)
            /\ UNCHANGED <<spend, verdicts, stackCopy>>

Ended == phase # "idle" /\ pc = Len(script) /\ multi = NoMulti

\* evaluate returns true.  The stacks are measured at the end only.
Evaluated == /\ Len(stack) + Len(altstack) <= MaxStack
             /\ vfExec = <<>>

EndBad == Ended /\ ~Evaluated /\ Reject

\* What comes after the last evaluation; copy is stackCopy.
Conclude(hadWitness, copy) ==
    Return(CASE "CLEANSTACK" \in flags /\ "P2SH" \notin flags -> "thrown"
             [] "CLEANSTACK" \in flags /\ "P2SH" \in flags /\ Len(copy) # 1
                    -> "rejected"
             [] OTHER ->
                  IF "WITNESS" \notin flags \/ hadWitness THEN "accepted"
                  ELSE IF ~spend.hasWitness THEN "thrown"
                  ELSE IF spend.witness # <<>> THEN "rejected" ELSE "accepted")

\* verifyWitnessProgram, of the program in script s.
WitnessProgram(s, copy) ==
    LET program == s[2].item
        w == spend.witness
        run(code, st) == /\ Load("witness", code, st)
                         /\ stackCopy' = copy
                         /\ UNCHANGED <<spend, verdicts, flags>>
    IN  CASE s[1].op = "NUM" /\ "DISCOURAGE_WITNESS_PROGRAM" \in flags -> Reject
          [] s[1].op = "NUM" /\ "DISCOURAGE_WITNESS_PROGRAM" \notin flags ->
               Conclude(TRUE, copy)
          [] s[1].op # "NUM" /\ Size(program) \notin {20, 32} -> Reject
          [] s[1].op # "NUM" /\ Size(program) \in {20, 32} ->
               IF ~spend.hasWitness THEN Return("thrown")
               ELSE IF Size(program) = 32 /\ w # <<>> /\ program = Hash(w[Len(w)], "SHA256")
               THEN run(Parsed(w[Len(w)]), SubSeq(w, 1, Len(w) - 1))
               ELSE IF Size(program) = 20 /\ Len(w) = 2
               THEN run(<<Op("DUP"), Op("HASH160"), Push(program),
                          Op("EQUALVERIFY"), Op("CHECKSIG")>>, w)
               ELSE Reject

EndScriptSig ==
    /\ Ended /\ Evaluated /\ phase = "scriptSig"
    /\ stackCopy' = IF "P2SH" \in flags THEN stack ELSE <<>>
    /\ Load("scriptPubkey", spend.scriptPubkey, stack)
    /\ UNCHANGED <<spend, verdicts, flags>>

Succeeded == stack # <<>> /\ castToBool(Top)

EndScriptPubkey ==
    /\ Ended /\ Evaluated /\ phase = "scriptPubkey"
    /\ IF ~Succeeded THEN Reject
       ELSE IF "WITNESS" \in flags /\ isWitnessProgram(script)
       THEN IF spend.scriptSig # <<>> THEN Reject
            ELSE WitnessProgram(script, stackCopy)
       ELSE IF "P2SH" \in flags /\ isScriptHashOut(script)
       THEN IF ~isPushOnly(spend.scriptSig) THEN Reject
            ELSE /\ Load("redeemScript", Parsed(stackCopy[Len(stackCopy)]),
                         SubSeq(stackCopy, 1, Len(stackCopy) - 1))
                 /\ stackCopy' = SubSeq(stackCopy, 1, Len(stackCopy) - 1)
                 /\ UNCHANGED <<spend, verdicts, flags>>
       ELSE Conclude(FALSE, stackCopy)

\* stackCopy and the stack are one array from here on.
EndRedeemScript ==
    /\ Ended /\ Evaluated /\ phase = "redeemScript"
    /\ IF ~Succeeded THEN Reject
       ELSE IF "WITNESS" \in flags /\ isWitnessProgram(script)
       THEN IF /\ Len(spend.scriptSig) = 1 /\ spend.scriptSig[1].minimal
               /\ Parsed(spend.scriptSig[1].item) = script
            THEN WitnessProgram(script, stack)
            ELSE Reject
       ELSE Conclude(FALSE, stack)

EndWitness ==
    /\ Ended /\ Evaluated /\ phase = "witness"
    /\ IF Len(stack) = 1 /\ castToBool(Top) THEN Conclude(TRUE, stackCopy)
       ELSE Reject

Step == \/ StepUnreadable \/ StepSkipped \/ StepPush \/ StepBad
        \/ StepIf \/ StepElse \/ StepEndif \/ StepRewrite
        \/ StepDepth \/ StepPick \/ StepToAlt \/ StepFromAlt
        \/ StepTimelock \/ StepNop \/ StepCodeSeparator
        \/ StepCheckSig \/ StepMultisig \/ TrySignature \/ EndMultisig

End == \/ EndBad \/ EndScriptSig \/ EndScriptPubkey \/ EndRedeemScript
       \/ EndWitness

Next == \/ \E F \in spend.under : Verify(F)
        \/ Step
        \/ End

Spec == Init /\ [][Next]_vars

-----------------------------------------------------------------------------
\* Properties

\* The conditionals that instruction p is in, by where they open.
Enclosing(p) ==
    {q \in 1 .. p - 1 :
        /\ script[q].op \in {"IF", "NOTIF"}
        /\ \A r \in q .. p - 1 :
              Cardinality({k \in q .. r : script[k].op = "ENDIF"})
              < Cardinality({k \in q .. r : script[k].op \in {"IF", "NOTIF"}})}

ElsesOf(q, p) ==
    {r \in q + 1 .. p - 1 : /\ script[r].op = "ELSE"
                            /\ q \in Enclosing(r)
                            /\ \A e \in Enclosing(r) : e <= q}

\* vfExec, one bit for each open conditional, executes what the structure of
\* the script says: an instruction has taken effect exactly when each of the
\* conditionals around it, as brackets match, runs the branch it is in.
BranchesMatch ==
    \A p \in 1 .. pc : script[p].op \notin CondOps \ {"IF", "NOTIF"} =>
        (p \in ran <=>
            \A q \in Enclosing(p) :
                q \in taken <=> Cardinality(ElsesOf(q, p)) % 2 = 0)

\* Each of the first s signatures has a key of its own among the first k, in
\* the same order.
Matched(s, k) ==
    \E f \in [1 .. s -> 1 .. k] :
        /\ \A i, j \in 1 .. s : i < j => f[i] < f[j]
        /\ \A i \in 1 .. s : Verifies(multi.sigs[i], multi.keys[f[i]])

\* The loop of CHECKMULTISIG, which never goes back to a key, ends with success
\* exactly when some choice of keys for the signatures exists.
MultisigExact ==
    multi.at = "trying" /\ ~Trying =>
        (multi.fSuccess <=> Matched(multi.nSigs, multi.nKeys))

\* A reference for standard outputs, over the data of the spend alone.

SignedFor(sig, key, where) ==
    /\ sig.type = "sig" /\ key.type = "key" /\ key.form # "bad"
    /\ sig.key = key.key /\ sig.code = <<where, 0>>

IsKeyScript(c)      == Len(c) = 2 /\ c[1].op = "PUSH" /\ c[2].op = "CHECKSIG"
IsKeyHashScript(c)  == /\ Len(c) = 5 /\ c[3].op = "PUSH"
                       /\ c[1].op = "DUP" /\ c[2].op = "HASH160"
                       /\ c[4].op = "EQUALVERIFY" /\ c[5].op = "CHECKSIG"

\* m of the keys of c, which are at most as many as there are small numbers.
KeysOf(c) == 2 .. Len(c) - 2
IsMultisigScript(c) ==
    /\ Len(c) > 3 /\ Len(c) - 2 <= MaxOps
    /\ c[1].op = "NUM" /\ c[1].item.n > 0
    /\ \A k \in KeysOf(c) : c[k].op = "PUSH" /\ c[k].item.type # "blob"
    /\ c[Len(c) - 1].op = "NUM" /\ c[Len(c) - 1].item.n = Len(c) - 3
    /\ c[Len(c)].op = "CHECKMULTISIG"

IsTemplate(c) == IsKeyScript(c) \/ IsKeyHashScript(c) \/ IsMultisigScript(c)

\* The script with hash h, which may be the empty one; and the programs of
\* witness version 0 for a key or for a script of those.
ScriptsOf(h) ==
    {Parsed(i) : i \in {h.of} \cap ({Empty} \cup [type : {"script"}, name : DOMAIN Code])}
IsProgram(c) == /\ isWitnessProgram(c) /\ c[1].op = "PUSH"
                /\ c[2].item.type = "hash"
                /\ \A d \in ScriptsOf(c[2].item) : IsTemplate(d)

\* The items that script c takes, and whether the last of items satisfy it.
Takes(c) == IF IsKeyScript(c) THEN 1
            ELSE IF IsKeyHashScript(c) THEN 2 ELSE c[1].item.n + 1

OpensKey(items, c, where) ==
    LET n == Len(items)
    IN  n >= 1 /\ SignedFor(items[n], c[1].item, where)

OpensKeyHash(items, c, where) ==
    LET n == Len(items)
    IN  /\ n >= 2 /\ c[3].item = Hash(items[n], "HASH160")
        /\ SignedFor(items[n - 1], items[n], where)

OpensMultisig(items, c, where) ==
    LET n == Len(items)
        m == c[1].item.n
    IN  /\ n >= m + 1
        /\ \E f \in [1 .. m -> KeysOf(c)] :
              /\ \A i, j \in 1 .. m : i < j => f[i] < f[j]
              /\ \A i \in 1 .. m : SignedFor(items[n - m + i], c[f[i]].item, where)

Opens(items, c, where) ==
    \/ IsKeyScript(c) /\ OpensKey(items, c, where)
    \/ IsKeyHashScript(c) /\ OpensKeyHash(items, c, where)
    \/ IsMultisigScript(c) /\ OpensMultisig(items, c, where)

OpensWitness(program) ==
    LET w == spend.witness
        n == Len(w)
    IN  \/ /\ n > 0 /\ program = Hash(w[n], "SHA256")
           /\ Opens(SubSeq(w, 1, n - 1), Parsed(w[n]), "witness")
           /\ n - 1 = Takes(Parsed(w[n]))
        \/ /\ n = 2 /\ program = Hash(w[2], "HASH160")
           /\ SignedFor(w[1], w[2], "witness")

\* What the input pushes, all of it short enough to be pushed.
Items == [k \in DOMAIN spend.scriptSig |-> spend.scriptSig[k].item]
Pushed(k) == /\ spend.scriptSig[k].op \in {"PUSH", "NUM"}
             /\ spend.scriptSig[k].item.type # "blob"
Delivered == /\ \A k \in DOMAIN spend.scriptSig : Pushed(k)
             /\ Len(spend.scriptSig) <= MaxStack

\* The input holds the script with the hash that the output asks for, and what
\* opens it; a witness program in its place is all that the input holds.
Redeems(n) ==
    /\ n > 0 /\ spend.scriptPubkey[2].item = Hash(Items[n], "HASH160")
    /\ IF isWitnessProgram(Parsed(Items[n]))
       THEN /\ n = 1 /\ spend.scriptSig[1].minimal
            /\ OpensWitness(Parsed(Items[n])[2].item)
       ELSE /\ Opens(SubSeq(Items, 1, n - 1), Parsed(Items[n]), "redeemScript")
            /\ spend.witness = <<>>

Authorised ==
    LET out == spend.scriptPubkey
    IN  /\ Delivered
        /\ CASE isWitnessProgram(out) -> Items = <<>> /\ OpensWitness(out[2].item)
             [] isScriptHashOut(out)  -> Redeems(Len(Items))
             [] OTHER -> Opens(Items, out, "scriptPubkey") /\ spend.witness = <<>>

\* The output is of a standard kind: to a key, a key's hash, m of n keys, the
\* hash of such a script, or a witness program of those.
IsStandard ==
    LET out == spend.scriptPubkey
    IN  /\ isPushOnly(spend.scriptSig) /\ spend.hasWitness
        /\ \/ IsTemplate(out) \/ IsProgram(out)
           \/ /\ isScriptHashOut(out)
              /\ \A c \in ScriptsOf(out[2].item) : IsTemplate(c) \/ IsProgram(c)

\* A standard output is spent exactly by the signatures it asks for: verify,
\* over up to three scripts and with what initialize, set and stackCopy carry
\* from one to the next, agrees with that.
StandardFlags == {"P2SH", "WITNESS"}
StandardExact ==
    StandardFlags \in DOMAIN verdicts /\ IsStandard =>
        (verdicts[StandardFlags] = "accepted" <=> Authorised)

\* Which flags may be added to F for G as a soft fork: CLEANSTACK and WITNESS
\* are not used without P2SH, and an instruction that was a discouraged NOP may
\* get a meaning.  LOW_S beside STRICTENC is set apart, see LowSNarrows.
SoftFork(F, G) ==
    /\ F \subseteq G
    /\ F \cap {"CLEANSTACK", "WITNESS"} # {} => "P2SH" \in F
    /\ (G \ F) \cap {"CHECKLOCKTIMEVERIFY", "WITNESS"} # {} =>
           "DISCOURAGE_NOPS" \notin F
    /\ "LOW_S" \in G \ F => "STRICTENC" \notin F

\* "softfork safe": what is accepted with more flags is accepted with fewer.
\* This is so of STRICTENC too, which the comment on the flag calls not softfork
\* safe: it has a key that fails the test skipped, which would let CHECKSIG NOT
\* accept a hybrid key whose signature is good, but the code ends the script.
FlagsNarrow ==
    \A F, G \in DOMAIN verdicts :
        SoftFork(F, G) /\ verdicts[G] = "accepted" => verdicts[F] = "accepted"

\* The same of LOW_S, whatever the other flags are.
LowSNarrows ==
    \A F \in DOMAIN verdicts :
        F \cup {"LOW_S"} \in DOMAIN verdicts
        /\ verdicts[F \cup {"LOW_S"}] = "accepted" => verdicts[F] = "accepted"

=============================================================================
