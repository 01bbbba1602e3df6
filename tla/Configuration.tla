---------------------------- MODULE Configuration ----------------------------
(***************************************************************************)
(* internal/config: a configuration file is expanded (interpolateEnv),     *)
(* parsed as YAML, decoded and validated (validateConfig).  The first rule *)
(* that is broken names a field; the error tells the line of that field in *)
(* the file, not in the expanded text (configFieldNode, ParseConfig).      *)
(*                                                                         *)
(* A text is a sequence of characters: line breaks, and "x" for all that   *)
(* is not one.  A document is the tree of nodes that the YAML parser       *)
(* returns, node 1 its root.                                               *)
(***************************************************************************)
EXTENDS Integers, Sequences, SequencesExt, FiniteSets

CONSTANTS
  Literals,         \* texts between two placeholders
  Placeholders,     \* [env : {} or {value}, default : {} or {text}]
  MaxPlaceholders,  \* bound: placeholders of a file
  Documents,        \* [nodes : Seq(node), height : lines it is spread over]
  Durations,        \* what time.ParseDuration reads, for the texts it takes
  RetentionDays,    \* the number before "d", for the retentions of that form
  Trimmed           \* texts with blanks around them, and what is in between

Breaks == {"CR", "LF", "NEL"}
Texts == Literals \cup UNION {p.env \cup p.default : p \in Placeholders}

Node ==
  [kind : {"mapping", "sequence", "alias", "scalar"}, value : STRING, keys : Seq(STRING),
   content : Seq(Nat), line : Nat]

\* Nodes are numbered so that one comes before those it contains or points to: a
\* document with an alias inside of what it stands for is not decoded.
IsTree(nodes) ==
  \A i \in DOMAIN nodes :
    /\ nodes[i].content \in Seq((i + 1)..Len(nodes))
    /\ nodes[i].kind = "mapping" => Len(nodes[i].keys) = Len(nodes[i].content)
    /\ nodes[i].kind = "alias" => Len(nodes[i].content) = 1

ASSUME ConfigurationAssumption ==
  /\ \A t \in Texts : t \in Seq(Breaks \cup {"x"})
  /\ MaxPlaceholders \in Nat
  /\ \A d \in Documents : d.nodes \in Seq(Node) \ {<<>>} /\ IsTree(d.nodes) /\ d.height > 0

VARIABLES
  file,          \* the text of the file read so far
  placeholders,  \* [at, to, end]: where each begins and ends in the file, and
                 \* how far the expanded text reaches behind its value
  expanded,      \* the text that YAML sees
  origin,        \* [at, literal]: for each of its characters the place in the
                 \* file, for those of a value that of the placeholder
  sourceLines,   \* for each of its lines, the line of the file
  line,          \* the line of the file reached
  previousCR,    \* the last character written is a CR
  phase,         \* "literal", "placeholder", "parse", "accepted" or "refused"
  document,      \* the parsed tree
  errorField,    \* the field that validateConfig names, a path
  errorNode,     \* the node of that field
  errorLine      \* the line that the error tells

textVars == <<file, placeholders, expanded, origin, sourceLines, line, previousCR>>
errorVars == <<document, errorField, errorNode, errorLine>>
configuration == <<textVars, phase, errorVars>>

ConfigurationInit ==
  /\ file = <<>> /\ placeholders = {} /\ expanded = <<>> /\ origin = <<>>
  /\ sourceLines = <<1>> /\ line = 1 /\ previousCR = FALSE
  /\ phase = "literal"
  /\ document = <<>>
  /\ errorField = <<>> /\ errorNode = 0 /\ errorLine = 0

-----------------------------------------------------------------------------
(* interpolateEnv                                                          *)

\* How many line breaks a text has, CR LF being one.
EndsBreak(text, i) ==
  /\ text[i] \in Breaks
  /\ text[i] = "CR" /\ i < Len(text) => text[i + 1] # "LF"
LineBreaks(text) == Cardinality({i \in DOMAIN text : EndsBreak(text, i)})

\* Mutant: the second half of a CR LF that began in a value is passed over.
NoCorrection(lines, n, literal) == lines

\* The line after a CR LF of two parts begins where its literal LF ends.
CorrectLast(lines, n, literal) ==
  IF literal THEN [lines EXCEPT ![Len(lines)] = n] ELSE lines

\* The body of writeText for the character at i.
WriteChar(text, literal, s, i) ==
  LET ch == text[i]
      n  == IF ch \in Breaks /\ literal /\ (ch # "LF" \/ i = 1 \/ text[i - 1] # "CR")
            THEN s.line + 1 ELSE s.line
  IN [line  |-> n,
      lines |-> IF ch \notin Breaks THEN s.lines
                ELSE IF ch # "LF" \/ ~s.cr THEN Append(s.lines, n)
                ELSE CorrectLast(s.lines, n, literal),
      cr    |-> ch = "CR"]

writeText(text, literal) ==
  LET written[i \in 0..Len(text)] ==
        IF i = 0 THEN [line |-> line, lines |-> sourceLines, cr |-> previousCR]
        ELSE WriteChar(text, literal, written[i - 1], i)
  IN written[Len(text)]

\* LookupEnv, and the default for a variable that is not set.
ValueOf(p) ==
  IF p.env # {} THEN CHOOSE t \in p.env : TRUE
  ELSE IF p.default # {} THEN CHOOSE t \in p.default : TRUE ELSE <<>>

\* The text of a placeholder in the file.
WrittenAs(p) == IF p.default = {} THEN <<"x">>
                ELSE <<"x">> \o (CHOOSE t \in p.default : TRUE) \o <<"x">>

\* A part of the file, and the text that is written for it.
Write(source, text, literal, breaks) ==
  LET s == writeText(text, literal)
      at(i) == Len(file) + (IF literal THEN i ELSE 1)
  IN /\ expanded' = expanded \o text
     /\ origin' = origin \o [i \in DOMAIN text |-> [at |-> at(i), literal |-> literal]]
     /\ sourceLines' = s.lines
     /\ line' = s.line + breaks
     /\ previousCR' = s.cr
     /\ file' = file \o source

WriteLiteral ==
  /\ phase = "literal"
  /\ \E text \in Literals : Write(text, text, TRUE, 0)
  /\ \/ phase' = "parse"
     \/ Cardinality(placeholders) < MaxPlaceholders /\ phase' = "placeholder"
  /\ UNCHANGED <<placeholders, errorVars>>

WritePlaceholder ==
  /\ phase = "placeholder"
  /\ \E p \in Placeholders :
       /\ Write(WrittenAs(p), ValueOf(p), FALSE, LineBreaks(WrittenAs(p)))
       /\ placeholders' = placeholders \cup
            {[at |-> Len(file) + 1, to |-> Len(file') + 1, end |-> Len(expanded')]}
  /\ phase' = "literal"
  /\ UNCHANGED errorVars

-----------------------------------------------------------------------------
(* The tree, and what the decoder makes of it                              *)

\* Parts of a path that strconv.Atoi takes, and the place they name.
Place == [part \in {"0", "1", "2"} |-> CASE part = "0" -> 1 [] part = "1" -> 2 [] OTHER -> 3]

Pointee(nodes) ==
  LET of[i \in DOMAIN nodes] ==
        IF nodes[i].kind = "alias" THEN of[nodes[i].content[1]] ELSE i
  IN of

Own(node, key) == SelectInSeq(node.keys, LAMBDA k : k = key)

\* The node of each field of a mapping once "<<" is resolved: its own keys, then
\* those of the merged mappings, an earlier one before a later one.
NoFields == [k \in {} |-> 0]

MergedFields(n, of) ==
  LET First(k) == SelectInSeq(n.content, LAMBDA c : k \in DOMAIN of[c])
  IN [k \in UNION {DOMAIN of[c] : c \in Range(n.content)} |-> of[n.content[First(k)]][k]]

OwnFields(n, of) ==
  LET merge == Own(n, "<<")
      merged == IF merge = 0 THEN NoFields ELSE of[n.content[merge]]
  IN [k \in (Range(n.keys) \ {"<<"}) \cup DOMAIN merged |->
        IF k \in Range(n.keys) THEN n.content[Own(n, k)] ELSE merged[k]]

FieldsOf(n, of) ==
  CASE n.kind = "alias"    -> of[n.content[1]]
    [] n.kind = "sequence" -> MergedFields(n, of)
    [] n.kind = "mapping"  -> OwnFields(n, of)
    [] OTHER               -> NoFields

Fields(nodes) ==
  LET of[i \in DOMAIN nodes] == FieldsOf(nodes[i], of)
  IN of

\* The names of what is below a node: fields, or places in a list.
Parts(nodes, i) ==
  LET at == Pointee(nodes)[i]
  IN CASE nodes[at].kind = "mapping"  -> DOMAIN Fields(nodes)[at]
       [] nodes[at].kind = "sequence" ->
            {part \in DOMAIN Place : Place[part] \in DOMAIN nodes[at].content}
       [] OTHER                       -> {}

Child(nodes, i, part) ==
  LET at == Pointee(nodes)[i]
  IN IF nodes[at].kind = "mapping" THEN Fields(nodes)[at][part] ELSE nodes[at].content[Place[part]]

\* The nodes on the way to the value that the decoder gives a field, 0 from where
\* the document has none.
Way(nodes, path) ==
  LET at[k \in 0..Len(path)] ==
        IF k = 0 THEN 1
        ELSE LET i == at[k - 1]
             IN IF i = 0 \/ path[k] \notin Parts(nodes, i) THEN 0 ELSE Child(nodes, i, path[k])
  IN at

Decoded(nodes, path) == Way(nodes, path)[Len(path)]

\* The decoded configuration: for the path of each field that the document has,
\* its text.
Config(nodes) ==
  LET below[i \in DOMAIN nodes] ==
        {<<>>} \cup UNION {{<<part>> \o path : path \in below[Child(nodes, i, part)]} :
                            part \in Parts(nodes, i)}
  IN [path \in below[1] |-> nodes[Pointee(nodes)[Decoded(nodes, path)]].value]

\* A field that is missing has the empty value.
Value(cfg, path) == IF path \in DOMAIN cfg THEN cfg[path] ELSE ""

\* The parts of the paths of a list's items.
Items(cfg, path) ==
  LET given == {part \in DOMAIN Place : Append(path, part) \in DOMAIN cfg}
  IN SubSeq(<<"0", "1", "2">>, 1, Cardinality(given))

-----------------------------------------------------------------------------
(* validateConfig                                                          *)

supportedBackupTools ==
  [postgres |-> {"pg_dump", "pg_restore", "pgbackrest", "wal-g", "walg"},
   mysql    |-> {"mysqldump", "xtrabackup", "mariabackup"},
   redis    |-> {"rdb", "aof"},
   etcd     |-> {"snapshot"}]

supportedCheckTypesByProvider ==
  [postgres |-> {"query", "sql", "schema", "freshness", "row_count", "extensions"},
   mysql    |-> {"query", "sql", "schema", "freshness", "row_count"},
   redis    |-> {"query", "key_count", "key_sample"},
   etcd     |-> {"query", "key_count", "key_get"}]

supportedCheckTypes ==
  {"query", "sql", "schema", "freshness", "key_count", "key_sample", "key_get",
   "row_count", "extensions"}
sqlBackedCheckTypes == {"query", "sql", "schema", "freshness", "row_count"}

TrimSpace(text) == IF text \in DOMAIN Trimmed THEN Trimmed[text] ELSE text

\* RetentionDuration, as far as validation goes: a count of days, or a duration,
\* that is positive; blanks stand for the default.
RetentionAccepted(retention) ==
  LET text == TrimSpace(retention) IN
  \/ text = ""
  \/ text \in DOMAIN RetentionDays /\ RetentionDays[text] > 0
  \/ text \in DOMAIN Durations /\ Durations[text] > 0

\* A rule is a field and whether it is broken; the first that is ends validation.
CheckRules(cfg, drill, provider, check) ==
  LET path == drill \o <<"checks", check>>
      V(f) == Value(cfg, path \o <<f>>)
      R(f, broken) == <<path \o <<f>>, broken>>
  IN << R("name", V("name") = ""),
        R("type", V("type") \notin supportedCheckTypes),
        R("type", provider \in DOMAIN supportedCheckTypesByProvider
                    /\ V("type") \notin supportedCheckTypesByProvider[provider]),
        R("sql", V("type") \in sqlBackedCheckTypes /\ V("sql") = ""),
        R("keys", V("type") = "key_sample" /\ Items(cfg, path \o <<"keys">>) = <<>>),
        R("key", V("type") = "key_get" /\ V("key") = ""),
        R("expect", V("expect") = "") >>

AlertRules(cfg, drill, alert) ==
  LET path == drill \o <<"alerts", alert>>
      V(f) == Value(cfg, path \o <<f>>)
      R(f, broken) == <<path \o <<f>>, broken>>
  IN << R("type", V("type") \notin {"webhook", "slack", "prometheus"}),
        R("on", V("on") \notin {"", "always", "failure"}),
        R("url", V("type") \in {"webhook", "slack"} /\ V("url") = "" /\ V("endpoint") = ""),
        R("headers", \E key \in {"", " "} : path \o <<"headers", key>> \in DOMAIN cfg) >>

DrillRules(cfg, i) ==
  LET path == <<"drills", i>>
      V(f) == Value(cfg, path \o f)
      R(f, broken) == <<path \o f, broken>>
      provider == V(<<"provider">>)
      repo(f) == V(<<"backup", "repo", f>>)
      tools == IF provider \in DOMAIN supportedBackupTools
               THEN supportedBackupTools[provider] ELSE {}
  IN << R(<<"name">>, V(<<"name">>) = ""),
        R(<<"name">>, \E j \in Range(Items(cfg, <<"drills">>)) :
                        Place[j] < Place[i] /\ Value(cfg, <<"drills", j, "name">>) = V(<<"name">>)),
        R(<<"provider">>, provider \notin DOMAIN supportedBackupTools),
        R(<<"backup", "tool">>, V(<<"backup", "tool">>) \notin tools),
        R(<<"backup", "source">>, V(<<"backup", "source">>) = "" /\ repo("type") = ""),
        R(<<"backup", "repo", "type">>, repo("type") \notin {"", "s3", "s3-compatible"}),
        R(<<"backup", "repo", "bucket">>, repo("type") # "" /\ repo("bucket") = ""),
        R(<<"backup", "repo", "prefix">>, repo("type") # "" /\ repo("prefix") = ""),
        R(<<"restore", "container", "image">>, V(<<"restore", "container", "image">>) = ""),
        R(<<"restore", "timeout">>, V(<<"restore", "timeout">>) \notin DOMAIN Durations \cup {""}) >>
     \o FlattenSeq([c \in DOMAIN Items(cfg, path \o <<"checks">>) |->
                      CheckRules(cfg, path, provider, Items(cfg, path \o <<"checks">>)[c])])
     \o FlattenSeq([a \in DOMAIN Items(cfg, path \o <<"alerts">>) |->
                      AlertRules(cfg, path, Items(cfg, path \o <<"alerts">>)[a])])

ReportingRules(cfg) ==
  LET format == <<"reporting", "format">>
      retention == <<"reporting", "retention">>
  IN [k \in DOMAIN Items(cfg, format) |->
        LET path == Append(format, Items(cfg, format)[k])
        IN <<path, Value(cfg, path) \notin {"table", "json", "html", "markdown"}>>]
     \o << <<retention, ~RetentionAccepted(Value(cfg, retention))>> >>

Rules(cfg) ==
  LET drills == Items(cfg, <<"drills">>)
  IN << <<(<<"drills">>), drills = <<>> >> >>
     \o FlattenSeq([d \in DOMAIN drills |-> DrillRules(cfg, drills[d])])
     \o ReportingRules(cfg)

FirstBroken(rules) ==
  LET k == SelectInSeq(rules, LAMBDA r : r[2])
  IN IF k = 0 THEN <<>> ELSE rules[k][1]

\* The field of the first broken rule, or none.
validateConfig(cfg) == FirstBroken(Rules(cfg))

-----------------------------------------------------------------------------
(* The place of an error                                                   *)

\* Mutant: merged mappings are looked through before the mapping's own keys.
MergedFirst(n, key) ==
  IF Own(n, "<<") # 0 THEN Own(n, "<<") ELSE Own(n, key)

\* Where configMappingValue goes on in a mapping: the key, else the merge key.
NextEntry(n, key) ==
  IF Own(n, key) # 0 THEN Own(n, key) ELSE Own(n, "<<")

\* The body of configMappingValue.
MappingValue(n, of, key) ==
  LET hit == SelectInSeq(n.content, LAMBDA c : of[c] # 0)
      e == NextEntry(n, key)
  IN CASE n.kind = "alias" -> of[n.content[1]]
       [] n.kind = "sequence" /\ hit # 0 -> of[n.content[hit]]
       [] n.kind = "mapping" /\ e # 0 ->
            IF n.keys[e] = key THEN n.content[e] ELSE of[n.content[e]]
       [] OTHER -> 0

configMappingValue(nodes, node, key) ==
  LET of[i \in DOMAIN nodes] == MappingValue(nodes[i], of, key)
  IN of[node]

\* The body of configFieldNode for a part of the field, until it breaks off.
FieldStep(nodes, s, part) ==
  LET at == Pointee(nodes)[s.node]
      n == nodes[at]
      next == CASE n.kind = "mapping" -> configMappingValue(nodes, at, part)
                [] n.kind = "sequence" /\ part \in DOMAIN Place
                     /\ Place[part] \in DOMAIN n.content -> n.content[Place[part]]
                [] OTHER -> 0
  IN IF s.ended THEN s
     ELSE IF next = 0 THEN [node |-> at, ended |-> TRUE]
     ELSE [node |-> next, ended |-> FALSE]

configFieldNode(nodes, field) ==
  LET step[k \in 0..Len(field)] ==
        IF k = 0 THEN [node |-> 1, ended |-> FALSE]
        ELSE FieldStep(nodes, step[k - 1], field[k])
  IN step[Len(field)].node

\* ParseConfig once the text is expanded.  Any document that can be spread over
\* as many lines may be what the text says.
ParseConfig ==
  /\ phase = "parse"
  /\ \E d \in Documents :
       /\ d.height = Len(sourceLines)
       /\ document' = d.nodes
       /\ errorField' = validateConfig(Config(d.nodes))
       /\ IF errorField' = <<>>
          THEN phase' = "accepted" /\ UNCHANGED <<errorNode, errorLine>>
          ELSE /\ phase' = "refused"
               /\ errorNode' = configFieldNode(d.nodes, errorField')
               /\ LET at == d.nodes[errorNode'].line   \* 0 in an empty file
                  IN errorLine' = IF at > 0 THEN sourceLines[at] ELSE 1
  /\ UNCHANGED textVars

ConfigurationNext == WriteLiteral \/ WritePlaceholder \/ ParseConfig

-----------------------------------------------------------------------------
(* Properties                                                              *)

\* The line of a place in a text, and whether the place begins it.
LineOf(text, at) == 1 + LineBreaks(SubSeq(text, 1, at - 1))
Begins(text, b) == b = 1 \/ EndsBreak(text, b - 1)

\* The break before a line of the expanded text: a CR LF whose LF comes from a
\* value is that of its CR.
BreakOf(text, from, b) ==
  IF b > 2 /\ text[b - 1] = "LF" /\ ~from[b - 1].literal /\ text[b - 2] = "CR"
  THEN b - 2 ELSE b - 1

\* The line of a place in the file, and those on which placeholders of several
\* lines begin that end between a break and that place.
Lines(text, passed, break, at) ==
  {LineOf(text, at)} \cup
    {LineOf(text, p.at) : p \in {q \in passed : /\ LineOf(text, q.at) < LineOf(text, q.to)
                                                /\ break <= q.end /\ q.at < at}}

\* interpolateEnv: the file's line is known for every line that the parser can
\* name, and it is that of the line's first character, also when values bring
\* line breaks of their own and when a CR LF is made of two parts.  (The guide:
\* "Semantic line numbers refer to the original file even when environment
\* values contain newlines; errors in inserted content point to the placeholder
\* line".)  Only a line before which placeholders of several lines have ended is
\* told as the line on which the first of these begins.
SourceLinesFollowTheFile ==
  /\ Len(sourceLines) = LineBreaks(expanded) + 1
  /\ \A b \in DOMAIN expanded : Begins(expanded, b) =>
       sourceLines[LineOf(expanded, b)] =
         Min(Lines(file, placeholders, BreakOf(expanded, origin, b), origin[b].at))

\* What the guide says without that exception, of text that is not inserted:
\* "Semantic line numbers refer to the original file even when environment values
\* contain newlines".  interpolateEnv does not keep to it.
LinesAreTheFiles ==
  \A b \in DOMAIN expanded : Begins(expanded, b) /\ origin[b].literal =>
    sourceLines[LineOf(expanded, b)] = LineOf(file, origin[b].at)

\* configFieldNode: an error points to the node that holds the value which the
\* decoder gave the field, through aliases and merged mappings; and for a field
\* that the document lacks, to the innermost mapping or list around it.
ErrorShowsTheValue ==
  phase = "refused" =>
    LET way == Way(document, errorField)
        last == Max({k \in DOMAIN way : way[k] # 0})
    IN errorNode = IF last = Len(errorField) THEN way[last] ELSE Pointee(document)[way[last]]
=============================================================================
