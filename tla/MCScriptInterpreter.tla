------------------------ MODULE MCScriptInterpreter ------------------------
(***************************************************************************)
(* Spends for the interpreter: every short script of conditionals, every   *)
(* short input of the standard outputs, and one family for each group of   *)
(* flags, verified under every subset of them.                             *)
(***************************************************************************)
EXTENDS ScriptInterpreter

-----------------------------------------------------------------------------
\* Keys, signatures, scripts

AKey(k, f) == [type |-> "key", key |-> k, form |-> f]
K1 == AKey("k1", "compressed")
K2 == AKey("k2", "compressed")
K3 == AKey("k3", "compressed")

Signed(k, where, f) ==
    [type |-> "sig", key |-> k.key, code |-> <<where, 0>>, form |-> f]
Script(name)  == [type |-> "script", name |-> name]
HashOf(i, op) == [type |-> "hash", of |-> i, by |-> <<op>>]
Padded(n)     == [type |-> "num", n |-> n, minimal |-> FALSE]

Pushes(s) == [k \in DOMAIN s |-> Push(s[k])]
ToScript(name) == <<Op("HASH160"), Push(HashOf(Script(name), "HASH160")), Op("EQUAL")>>
ToKeyHash(k) == <<Op("DUP"), Op("HASH160"), Push(HashOf(k, "HASH160")),
                  Op("EQUALVERIFY"), Op("CHECKSIG")>>
Multisig(m, ks) == <<OpNum(m)>> \o Pushes(ks)
                   \o <<OpNum(Len(ks)), Op("CHECKMULTISIG")>>
Program(i) == <<Push(Empty), Push(i)>>

MCCode ==
    [two     |-> Multisig(2, <<K1, K2, K3>>),
     single  |-> <<Push(K1), Op("CHECKSIG")>>,
     program |-> Program(HashOf(Script("single"), "SHA256")),
     keyprog |-> Program(HashOf(K1, "HASH160")),
     pair    |-> <<OpNum(1), OpNum(1)>>]

Spending(sig, out, witness, under) ==
    [scriptSig |-> sig, scriptPubkey |-> out, witness |-> witness,
     hasWitness |-> TRUE, lockTime |-> 40, sequenceMax |-> FALSE,
     under |-> under]

Words(S, n) == UNION {[1 .. k -> S] : k \in 0 .. n}

-----------------------------------------------------------------------------
\* Families: sets of sets of spends

Conditionals ==
    {Spending(<<OpNum(1), a, b>>, s, <<>>, {{}}) :
        a \in {Push(Empty), OpNum(1)}, b \in {Push(Empty), OpNum(1)},
        s \in Words({Op("IF"), Op("NOTIF"), Op("ELSE"), Op("ENDIF"),
                     Op("DEPTH")}, 5)}

\* Signatures that are good for one of the three kinds of scripts.
SigsFor(where) == {Signed(k, where, "plain") : k \in {K1, K2, K3}}
Inputs(where) == Words({Empty, Signed(K1, "scriptSig", "plain")} \cup SigsFor(where), 3)

Standard == {"P2SH", "WITNESS"}

StandardSpends ==
   {{Spending(Pushes(i), MCCode.two, <<>>, {Standard}) : i \in Inputs("scriptPubkey")},
    {Spending(Pushes(i) \o <<Push(Script("two"))>>, ToScript("two"), w, {Standard}) :
        i \in Inputs("redeemScript"), w \in {<<>>, <<Empty>>}},
    {Spending(Pushes(i), o, w, {Standard}) :
        i \in Words({Signed(K1, "scriptPubkey", "plain"),
                     Signed(K2, "scriptPubkey", "plain"), K1, K2}, 2),
        w \in {<<>>, <<K1>>},
        o \in {ToKeyHash(K1), MCCode.single}},
    {Spending(Pushes(i), o, w, {Standard}) :
        i \in {<<>>, <<Script("program")>>, <<Script("keyprog")>>,
               <<Empty, Script("keyprog")>>},
        w \in Words({Signed(K1, "witness", "plain"), Signed(K1, "scriptPubkey", "plain"),
                     K1, K2, Script("single")}, 3),
        o \in {MCCode.program, MCCode.keyprog, ToScript("program"),
               ToScript("keyprog")}},
    {Spending(i, o, w, {Standard}) :
        i \in {<<>>, <<LongPush(Script("keyprog"))>>, <<OpNum(1), Push(Empty)>>,
               <<OpNum(1), Push(K1)>>}
              \cup {<<p, Push(Signed(K1, "scriptPubkey", "plain"))>> :
                        p \in {Op("RESERVED"), Push([type |-> "blob"]), Push(Empty)}},
        w \in {<<>>, <<Num(1), Empty>>, <<Num(1), K1>>,
               <<Signed(K1, "witness", "plain"), K1>>},
        o \in {MCCode.single, ToScript("keyprog")}
              \cup {<<Op("HASH160"), Push(HashOf(p, "HASH160")), Op("EQUAL")>> :
                        p \in {Empty, K1}}
              \cup {Program(HashOf(p, "SHA256")) : p \in {Empty, K1}}}}

\* Whether and how a failed signature is read, and a key that some parsing or
\* none takes: CHECKSIG NOT, and m of n.
Forms == {"plain", "highS", "hashtype", "lax"}

EncodingSpends ==
   {{Spending(<<Push(i)>>, <<Push(k), Op("CHECKSIG")>> \o t, <<>>,
              SUBSET {"STRICTENC", "DERSIG", "LOW_S", "NULLFAIL"}) :
        i \in {Empty, K1} \cup {Signed(K1, "scriptPubkey", f) : f \in Forms},
        k \in {K1, K2, AKey("k1", "hybrid"), AKey("k1", "bad")},
        t \in {<<>>, <<Op("NOT")>>}},
    {Spending(<<Push(d), Push(i), Push(j)>>,
              Multisig(2, <<AKey("k1", f), K2, K3>>) \o t, <<>>,
              SUBSET {"STRICTENC", "NULLDUMMY", "NULLFAIL"}) :
        d \in {Empty, Num(1)}, f \in {"compressed", "hybrid", "bad"},
        i \in {Empty, Signed(K1, "scriptPubkey", "plain")},
        j \in {Empty, Signed(K2, "scriptPubkey", "hashtype")},
        t \in {<<>>, <<Op("NOT")>>}},
    {Spending(<<>>, Program(HashOf(AKey("k1", f), "HASH160")),
              <<Signed(K1, "witness", "plain"), AKey("k1", f)>>,
              SUBSET {"P2SH", "WITNESS", "WITNESS_PUBKEYTYPE"}) :
        f \in {"compressed", "uncompressed", "hybrid"}},
    {Spending(<<Push(Empty), Push(Signed(K1, "scriptPubkey", "plain"))>>,
              <<OpNum(1), Push(K1), OpNum(1), Op("CHECKMULTISIGVERIFY"), OpNum(1)>>,
              <<>>, {{}})}}

\* Every instruction, on stacks that are long enough or too short.
InstructionSpends ==
   {{Spending(Pushes(b \o i), t, <<>>, SUBSET {"MINIMALDATA"}) :
        b \in {<<>>, <<Num(3), Num(4), Num(5), Num(6)>>},
        i \in Words({Empty, Num(2), Num(-1), Padded(0), K1}, 2),
        t \in {<<Op(o)>> : o \in RewriteOps \cup
                  {"DEPTH", "PICK", "ROLL", "CODESEPARATOR", "VER", "CAT"}}
              \cup {<<Op("TOALTSTACK"), Op(o)>> : o \in
                  {"FROMALTSTACK", "DUP", "DEPTH", "RETURN"}}
              \cup {<<Op("FROMALTSTACK")>>,
                    <<Op("IF"), Op("RETURN"), Op("ELSE"), Op("VERIF"), Op("ENDIF")>>}},
    {Spending(Pushes(<<Num(60), Num(60), Num(1)>>),
              <<Op("DROP"), Op("ADD"), Op(o)>>, <<>>, {{}}) : o \in {"NOP", "NOT"}}}

\* The limits: of instructions, of the stack at the end, and of an item.
LimitSpends ==
   {{Spending(<<OpNum(1)>>, [k \in 1 .. n |-> Op("NOP")], <<>>, {{}}) : n \in 7 .. 9},
    {Spending([k \in 1 .. 9 |-> OpNum(1)], s, <<>>, {{}}) :
        s \in {<<Op("2DUP")>>, <<Op("2DUP"), Op("DROP")>>,
               <<Op("2DUP"), Op("TOALTSTACK")>>,
               <<Op("NOT"), Op("IF"), Push([type |-> "blob"]), Op("ENDIF")>>}},
    {Spending(Pushes([k \in 1 .. 10 |-> Empty]),
              <<OpNum(n), Op("CHECKMULTISIG"), Op("NOT")>>, <<>>, {{}}) : n \in 6 .. 8}}

SwitchSpends ==
   {{[Spending(<<Push(i)>>, <<Op(o), OpNum(1)>>, <<>>,
               SUBSET {"CHECKLOCKTIMEVERIFY", "WITNESS", "P2SH", "DISCOURAGE_NOPS"})
      EXCEPT !.lockTime = l, !.sequenceMax = x] :
        i \in {Num(-1), Num(10), Num(45), Num(60), Num(150), Num(250), K1},
        o \in {"CHECKLOCKTIMEVERIFY", "CHECKSEQUENCEVERIFY"},
        l \in {40, 70}, x \in BOOLEAN},
    {Spending(<<OpNum(1), p>>, <<Op(o)>> \o t \o <<Op("ENDIF")>>, <<>>,
              SUBSET {"MINIMALIF", "MINIMALDATA", "DISCOURAGE_NOPS"}) :
        p \in {Push(Empty), OpNum(1), LongPush(Num(1)), Push(Padded(0)),
               Push(Padded(1)), Push(Num(20)), Push(K1)},
        o \in {"IF", "NOTIF"}, t \in {<<>>, <<Op("NOP1")>>, <<Op("NOP")>>}},
    {[Spending(s, o, w, u) EXCEPT !.hasWitness = h] :
        s \in {<<>>, <<OpNum(1)>>, <<OpNum(1), OpNum(1)>>, <<OpNum(1), Op("NOP")>>,
               <<Push(Script("pair"))>>, <<Op("NOP"), Push(Script("pair"))>>,
               <<Push(Script("keyprog"))>>},
        o \in {<<OpNum(1)>>, <<Op("DROP"), OpNum(1)>>, ToScript("pair"),
               ToScript("keyprog"), MCCode.keyprog, Program(Padded(20)),
               <<OpNum(1), Push(K1)>>},
        w \in {<<>>, <<Signed(K1, "witness", "plain"), K1>>}, h \in BOOLEAN,
        u \in {SUBSET {"P2SH", "WITNESS", "CLEANSTACK"},
               SUBSET {"P2SH", "WITNESS", "SIGPUSHONLY"},
               SUBSET {"P2SH", "WITNESS", "DISCOURAGE_WITNESS_PROGRAM"}}}}

MCSpends == {Conditionals} \cup StandardSpends \cup EncodingSpends
            \cup InstructionSpends \cup LimitSpends \cup SwitchSpends

=============================================================================
