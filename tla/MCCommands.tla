------------------------------ MODULE MCCommands ------------------------------
(* Small instances of what comes before and after a restore, for TLC.      *)
EXTENDS Commands

MCLiterals == 
  {<<>>, <<"x">>, <<"LF">>, <<"x", "CR">>, <<"CR", "LF">>, <<"LF", "x", "NEL", "CR">>}

Set(value) == [env |-> {value}, default |-> {}]
Unset(default) == [env |-> {}, default |-> {default}]

MCPlaceholders ==
  { Set(<<>>), Set(<<"x", "LF">>), Set(<<"CR">>), Set(<<"LF", "x">>),
    Unset(<<"x", "LF">>), Unset(<<"CR", "LF", "x">>),
    [env |-> {<<"x">>}, default |-> {<<"LF">>}], [env |-> {<<>>}, default |-> {<<"LF">>}],
    [env |-> {<<"CR">>}, default |-> {<<"CR", "LF">>}] }

(***************************************************************************)
(* Documents: one drill with fields of its own and up to two mappings that *)
(* it merges.  Node 1 is the root, 2 the list of drills, 4 the drill, 8    *)
(* and 10 the two mappings.  The m-th mapping has its provider at 20 + m,  *)
(* its backup at 30 + m, the tool of that at 40 + m and the source at      *)
(* 50 + m.                                                                 *)
(***************************************************************************)
Map(keys, content) == [kind |-> "mapping", value |-> "", keys |-> keys, content |-> content, line |-> 2]
List(content) == [kind |-> "sequence", value |-> "", keys |-> <<>>, content |-> content, line |-> 3]
Text(value) == [kind |-> "scalar", value |-> value, keys |-> <<>>, content |-> <<>>, line |-> 5]
Alias(node) == [kind |-> "alias", value |-> "", keys |-> <<>>, content |-> <<node>>, line |-> 4]

Given(name, node, present) == IF present THEN <<<<name, node>>>> ELSE <<>>
Mapping(entries) ==
  Map([i \in DOMAIN entries |-> entries[i][1]], [i \in DOMAIN entries |-> entries[i][2]])

MCMerges == {"none", "one", "list", "chain"}

Tree(system, tool, merge) ==
  LET Common(m) == Given("provider", 20 + m, system[m] # "absent")
                     \o Given("backup", 30 + m, tool[m] # "absent")
  IN [i \in 1..64 |->
       CASE i = 1 -> Map(<<"base", "more", "drills", "reporting">>, <<8, 10, 2, 60>>)
         [] i = 2 -> List(<<4>>)
         [] i = 4 -> Mapping(Given("<<", IF merge = "list" THEN 5 ELSE 7, merge # "none")
                               \o Common(0) \o <<<<"name", 11>>, <<"restore", 12>>, <<"checks", 15>>>>)
         [] i = 5 -> List(<<6, 7>>)
         [] i = 7 -> Alias(8)
         [] i = 8 -> Mapping(Common(1) \o Given("<<", 9, merge = "chain"))
         [] i \in {6, 9} -> Alias(10)
         [] i = 10 -> Mapping(Common(2))
         [] i = 12 -> Map(<<"container">>, <<13>>)
         [] i = 13 -> Map(<<"image">>, <<14>>)
         [] i = 15 -> List(<<16>>)
         [] i = 16 -> Map(<<"name", "type", "expect">>, <<17, 18, 19>>)
         [] i = 18 -> Text("key_count")
         [] i \in 20..22 -> Text(system[i - 20])
         [] i \in 30..32 -> IF tool[i - 30] = "none" THEN Map(<<"source">>, <<i + 20>>)
                            ELSE Map(<<"tool", "source">>, <<i + 10, i + 20>>)
         [] i \in 40..42 -> Text(tool[i - 40])
         [] i = 60 -> Map(<<"format", "retention">>, <<61, 62>>)
         [] i = 61 -> List(<<64>>)
         [] i = 62 -> Text("30d")
         [] OTHER -> Text("json")]

Per(a, b, c) == (0 :> a) @@ (1 :> b) @@ (2 :> c)

MCMerged ==
  { Tree(Per(p0, p1, p2), Per(t0, t1, "zip"), merge) :
      p0 \in {"absent", "redis", "oracle"}, p1 \in {"absent", "redis", "oracle"},
      p2 \in {"redis"}, t0 \in {"absent", "rdb", "none"},
      t1 \in {"absent", "rdb"}, merge \in MCMerges }

Plain == Tree(Per("redis", "absent", "absent"), Per("rdb", "absent", "absent"), "none")

MCChanged ==
  { [Plain EXCEPT ![i] = Text(value)] : i \in {11, 14, 17, 18, 19, 50, 62, 64}, value \in {"", "oracle"} }
    \cup { [Plain EXCEPT ![62] = Text(value)] : value \in {"0d", "0s", "30m", " ", " 30d ", "0s "} }
    \cup { [Plain EXCEPT ![i] = List(<<>>)] : i \in {2, 15, 61} }
    \cup { [Plain EXCEPT ![2] = List(<<4, 3>>), ![3] = Alias(4)] }
    \cup { [Plain EXCEPT ![16] = Map(<<"name", "type", "keys", "expect">>, <<17, 18, 63, 19>>),
                         ![18] = Text("key_sample"), ![63] = List(<<64>>)] }

MCDocuments ==
  { [nodes |-> n, height |-> 12] : n \in MCMerged \cup MCChanged }
    \cup { [nodes |-> <<[Text("") EXCEPT !.line = 0]>>, height |-> 1],
           [nodes |-> <<Map(<<"reporting">>, <<2>>), [Text("") EXCEPT !.line = 2]>>, height |-> 2] }
MCDurations == ("30m" :> 30) @@ ("0s" :> 0)
MCRetentionDays == ("30d" :> 30) @@ ("0d" :> 0)
MCTrimmed == (" " :> "") @@ (" 30d " :> "30d") @@ ("0s " :> "0s")

-----------------------------------------------------------------------------
(* Answers and expectations.  An age is counted in seconds that are as long *)
(* as a fifteenth of what an int64 holds, a minute is 2 and an hour 4.      *)

Read(number, age, items, inside) ==
  [lower |-> "", number |-> number, age |-> age, items |-> items,
   inside |-> {""} \cup inside, size |-> {}]
Word(text) == [Read({}, {}, {text}, {}) EXCEPT !.lower = text]
Number(text, n) == [Read({n}, {14}, {text}, {}) EXCEPT !.lower = text]   \* also a Unix time
Count(text) == [Read({}, {}, {text}, {}) EXCEPT !.size = {text}]

MCReading ==
  ("" :> Read({}, {}, {}, {})) @@ ("0" :> Number("0", 0)) @@ ("1" :> Number("1", 1))
    @@ ("2" :> Number("2", 2)) @@ ("f" :> Word("f")) @@ ("true" :> Word("true"))
    @@ ("false" :> Word("false")) @@ ("YES" :> Word("yes"))
    @@ ("recent" :> Read({}, {1}, {"recent"}, {})) @@ ("old" :> Read({}, {6}, {"old"}, {}))
    @@ ("ahead" :> Read({}, {-2}, {"ahead"}, {}))
    @@ ("plpgsql, pgcrypto" :> Read({}, {}, {"plpgsql", "pgcrypto"}, {}))
    @@ ("agent-1" :> Read({}, {}, {"agent-1"}, {"agent"})) @@ ("<none>" :> Word("<none>"))
    @@ ("(integer) 2" :> [Word("(integer) 2") EXCEPT !.size = {"2"}])
    @@ ("keys=2,expires=0" :> [Read({}, {}, {"keys=2", "expires=0"}, {}) EXCEPT !.size = {"2"}])

Form(text) ==
  [text |-> text, begins |-> "", age |-> {}, contains |-> {}, compare |-> {}, comma |-> FALSE,
   items |-> {}]
Cmp(text, op, value) == [Form(text) EXCEPT !.compare = {[op |-> op, value |-> value]}]
Age(text, op, amount, unit) ==
  [Form(text) EXCEPT !.begins = "age", !.age = {[op |-> op, amount |-> amount, unit |-> unit]}]
Items2(text, items) == [Form(text) EXCEPT !.comma = TRUE, !.items = items]

MCSyntax ==
  [text \in {"true", "false", "exists", "f", "2"} |-> Form(text)]
    @@ (" " :> Form("")) @@ ("> 0" :> Cmp("> 0", ">", {0})) @@ ("== 2" :> Cmp("== 2", "==", {2}))
    @@ ("!= 0" :> Cmp("!= 0", "!=", {0})) @@ ("<= 1" :> Cmp("<= 1", "<=", {1}))
    @@ ("<none>" :> Cmp("<none>", "<", {}))
    @@ ("age < 1h" :> Age("age < 1h", "<", 1, "h")) @@ ("age >= 3h" :> Age("age >= 3h", ">=", 3, "h"))
    @@ ("age < 4h" :> Age("age < 4h", "<", 4, "h")) @@ ("age <= 99s" :> Age("age <= 99s", "<=", 99, "s"))
    @@ ("age > 3m" :> Age("age > 3m", ">", 3, "m"))
    @@ ("agent-1" :> [Form("agent-1") EXCEPT !.begins = "age"])
    @@ ("contains \"agent\"" :> [Form("contains \"agent\"") EXCEPT !.begins = "contains ",
                                                                  !.contains = {"agent"}])
    @@ ("contains agent" :> [Form("contains agent") EXCEPT !.begins = "contains "])
    @@ ("pgcrypto" :> Form("pgcrypto")) @@ ("," :> Items2(",", {}))
    @@ ("pgcrypto, plpgsql" :> Items2("pgcrypto, plpgsql", {"pgcrypto", "plpgsql"}))
    @@ ("pgcrypto, postgis" :> Items2("pgcrypto, postgis", {"pgcrypto", "postgis"}))

MCNumeral == (0 :> "0") @@ (1 :> "1") @@ (2 :> "2")
MCLabelled ==
  (0 :> {"0"}) @@ (1 :> {"1"}) @@ (2 :> {"2", "(integer) 2", "keys=2,expires=0"})
Values == DOMAIN MCReading \ {"(integer) 2", "keys=2,expires=0"}

C(type, expect) ==
  [type |-> type, expect |-> expect, holds |-> "", keys |-> 0, missing |-> FALSE, blank |-> FALSE]

MCSingle ==
  { [C(type, expect) EXCEPT !.holds = v] :
      type \in {"query", "sql", "schema", "freshness", "row_count", "extensions", "key_get"},
      expect \in DOMAIN MCSyntax, v \in Values }
    \cup { [C("key_count", expect) EXCEPT !.keys = n] : expect \in DOMAIN MCSyntax, n \in 0..2 }
    \cup { [C("key_sample", expect) EXCEPT !.missing = m] :
             expect \in DOMAIN MCSyntax, m \in BOOLEAN }
    \cup { [C("query", "contains agent") EXCEPT !.blank = TRUE] }

MCCheckLists ==
  { <<c>> : c \in MCSingle }
    \cup { <<[C("query", e) EXCEPT !.holds = v], [C("key_count", f) EXCEPT !.keys = n]>> :
             e \in {"true", "> 0"}, v \in {"", "1"}, f \in {"> 0", "<= 1"}, n \in 0..2 }
    \cup { <<>> }
MCUnitOf == [s |-> 1, m |-> 2, h |-> 4]

-----------------------------------------------------------------------------
(* Quantities: a milli is 10 nanos, and an int64 ends at 500.               *)

MCBytes == [Ki |-> 4, Mi |-> 16, Gi |-> 64, M |-> 15, G |-> 60]
MCMemories ==
  { [number |-> n, suffix |-> s] : n \in {{}, {0}, {2}, {7}, {8}, {16}, {17}, {20}},
                                   s \in {"Ki", "Mi", "Gi", "M", "G", "Ti", "k", ""} }
MCCPUs ==
  { [number |-> n, milli |-> TRUE] : n \in {{}, {1}, {5}, {51}, {60}, {101}} }
    \cup { [number |-> n, milli |-> FALSE] : n \in {{0}, {5}, {15}, {100}, {600}} }

-----------------------------------------------------------------------------
(* Environments of doctor, one or two kinds of places and names at a time.  *)

Good ==
  [valid |-> TRUE, mode |-> "docker", padded |-> FALSE, flags |-> TRUE, inCluster |-> FALSE,
   daemon |-> "creates", api |-> "lists", creates |-> {"restore-drill"},
   namespace |-> "restore-drill", home |-> "writable", history |-> "writable",
   parent |-> "writable", path |-> "absent",
   allows |-> {"rename", "link", "state", "reports"}, output |-> "bare", formats |-> {"json"},
   missing |-> {}, strict |-> TRUE]

MCRuntimes ==
  { [c EXCEPT !.mode = m, !.inCluster = i, !.daemon = r[1], !.api = r[2],
              !.creates = ns, !.namespace = n] :
      c \in {Good, [Good EXCEPT !.valid = FALSE], [Good EXCEPT !.padded = TRUE],
             [Good EXCEPT !.flags = FALSE]},
      m \in {"auto", "docker", "kubernetes", "other"}, i \in BOOLEAN,
      r \in {<<"down", "lists">>, <<"refuses", "refuses">>, <<"creates", "down">>,
             <<"creates", "refuses">>, <<"creates", "lists">>},
      ns \in SUBSET {"restore-drill", "other"}, n \in {"restore-drill", "other"} }

MCOutputs ==
  { e \in { [Good EXCEPT !.parent = d, !.path = p, !.output = o, !.formats = f,
                         !.history = h, !.strict = s] :
              d \in Directories, p \in {"absent", "file", "lockedFile", "dir", "lockedDir"},
              o \in {"none", "slash", "extension", "bare"},
              f \in {{}, {"json"}, {"html"}, {"json", "markdown"}},
              h \in {"writable", "unlistable"}, s \in BOOLEAN } :
      e.parent \in {"absent", "blocked"} => e.path = "absent" }

MCStates ==
  { e \in { [Good EXCEPT !.home = h, !.history = d, !.allows = a, !.formats = f] :
              h \in Directories, d \in Directories \cup {"unlistable"},
              a \in SUBSET {"rename", "link", "state", "reports"},
              f \in {{"json"}, {"html"}} } :
      /\ e.home = "absent" => e.history = "absent"
      /\ e.home = "blocked" => e.history \in {"absent", "blocked"} }

MCTools ==
  { [Good EXCEPT !.missing = t, !.strict = s, !.output = o] :
      t \in SUBSET {"required", "optional"}, s \in BOOLEAN, o \in {"none", "bare"} }

MCEnvironments == MCRuntimes \cup MCOutputs \cup MCStates \cup MCTools
=============================================================================
