----------------------------- MODULE CodeSymbols -----------------------------
(***************************************************************************)
(* How a source file becomes symbol chunks (src/src/index/code_symbols.rs).*)
(*                                                                         *)
(* tree-sitter is external; what it returns is a syntax tree.  A tree is   *)
(* the sequence of its nodes in the order walk_node visits them: every     *)
(* node before its children, children from left to right.  A node has      *)
(*   up            its parent's place in the sequence, 0 for the root      *)
(*   kind, field   its grammar symbol and its field in the parent          *)
(*   first, last   the rows it begins and ends on                          *)
(*   word          the text of an identifier, a sequence of characters     *)
(* JavaScript, TypeScript and TSX are one language here: they differ in    *)
(* the parser and in the label stored with the chunk.                      *)
(***************************************************************************)
EXTENDS Integers, SequencesExt, Positions

CONSTANT TermLimit   \* at most so many identifier terms are kept (64)

\* CodeLanguage::detect, by the extension of the path.
CodeLanguage ==
  [rs |-> "rust", py |-> "python", js |-> "javascript", mjs |-> "javascript",
   cjs |-> "javascript", jsx |-> "javascript", ts |-> "javascript", tsx |-> "javascript"]

SupportsCodeSymbolIndexing(extension) == extension \in DOMAIN CodeLanguage

None == "none"

-----------------------------------------------------------------------------
(* Identifiers: expand_identifier_terms *)

\* Characters: two letters in both cases, a digit and a separator.
Upper == [A |-> "a", B |-> "b"]
Lower == {"a", "b"}
Digit == {"1"}
Char  == DOMAIN Upper \cup Lower \cup Digit \cup {"_"}

LowerCase(word) == [i \in DOMAIN word |->
                      IF word[i] \in DOMAIN Upper THEN Upper[word[i]] ELSE word[i]]

Push(parts, current) == IF current = <<>> THEN parts ELSE Append(parts, current)

\* One character: a separator ends the part, and so does a capital after a
\* small letter or a digit.
SplitStep(s, ch) ==
  LET cut == ch \in DOMAIN Upper /\ s.lower
  IN  IF ch = "_" THEN [parts |-> Push(s.parts, s.current), current |-> <<>>, lower |-> FALSE]
      ELSE [parts   |-> IF cut THEN Push(s.parts, s.current) ELSE s.parts,
            current |-> Append(IF cut THEN <<>> ELSE s.current, LowerCase(<<ch>>)[1]),
            lower   |-> ch \in Lower \cup Digit]

Parts(word) ==
  LET scan[i \in 0..Len(word)] ==
        IF i = 0 THEN [parts |-> <<>>, current |-> <<>>, lower |-> FALSE]
        ELSE LET before == scan[i - 1] IN SplitStep(before, word[i])
      end == scan[Len(word)]
  IN  Push(end.parts, end.current)

\* Each term once, where it first occurs.
Dedupe(terms) ==
  At(terms, Ascending({i \in DOMAIN terms : \A j \in 1..(i - 1) : terms[j] # terms[i]}, Len(terms)))

ExpandIdentifierTerms(word) ==
  IF word = <<>> THEN <<>> ELSE Dedupe(<<LowerCase(word)>> \o Parts(word))

\* Reference: neighbours i and i + 1 of a word are in one part.
InOnePart(word, i) ==
  /\ word[i] # "_" /\ word[i + 1] # "_"
  /\ ~(word[i] \in Lower \cup Digit /\ word[i + 1] \in DOMAIN Upper)

\* The parts of an identifier are its runs of joined characters, in order and
\* in lower case; no letter is lost.
PartsAreRuns(word) ==
  LET letters == {i \in DOMAIN word : word[i] # "_"}
      starts  == Ascending({i \in letters : i = 1 \/ ~InOnePart(word, i - 1)}, Len(word))
      stops   == Ascending({i \in letters : i = Len(word) \/ ~InOnePart(word, i)}, Len(word))
  IN  Parts(word) = [k \in DOMAIN starts |-> LowerCase(SubSeq(word, starts[k], stops[k]))]

-----------------------------------------------------------------------------
(* Trees *)

Tree == Seq([up : Nat, kind : STRING, field : STRING, first : Nat, last : Nat, word : Seq(Char)])

\* Node k is n or below it: a subtree is visited without a break.
Below(tree, n, k) == n <= k /\ \A j \in (n + 1)..k : tree[j].up >= n

\* child_by_field_name: the first child with the field, or 0.
Child(tree, n, field) ==
  LET found == {k \in DOMAIN tree : tree[k].up = n /\ tree[k].field = field}
  IN  IF found = {} THEN 0 ELSE CHOOSE k \in found : \A j \in found : k <= j

ChildKind(tree, n, field) ==
  IF Child(tree, n, field) = 0 THEN None ELSE tree[Child(tree, n, field)].kind

Parent(tree, n) == tree[n].up
KindOf(tree, n) == IF n = 0 THEN None ELSE tree[n].kind

-----------------------------------------------------------------------------
(* Which nodes are symbols *)

\* The kinds that are symbols wherever they are.  A JavaScript keyword token
\* `class` has the kind of a class, but no name.
SymbolKinds ==
  [rust |-> [function_item |-> "function", struct_item |-> "struct", enum_item |-> "enum",
             trait_item |-> "trait", type_item |-> "type", mod_item |-> "module",
             const_item |-> "constant", static_item |-> "constant"],
   python |-> [function_definition |-> "function", class_definition |-> "class"],
   javascript |-> [function_declaration |-> "function", function_signature |-> "function",
                   method_definition |-> "method", method_signature |-> "method",
                   abstract_method_signature |-> "method", class_declaration |-> "class",
                   class |-> "class", abstract_class_declaration |-> "class",
                   interface_declaration |-> "interface", module |-> "module"]]

\* is_python_module_assignment
IsPythonModuleAssignment(tree, n) ==
  /\ tree[n].kind = "assignment"
  /\ ChildKind(tree, n, "left") = "identifier"
  /\ KindOf(tree, Parent(tree, n)) = "expression_statement"
  /\ KindOf(tree, Parent(tree, Parent(tree, n))) = "module"

\* is_js_top_level_binding
IsJsTopLevelBinding(tree, n) ==
  /\ tree[n].kind = "variable_declarator"
  /\ ChildKind(tree, n, "name") = "identifier"
  /\ KindOf(tree, Parent(tree, n)) \in {"lexical_declaration", "variable_declaration"}
  /\ KindOf(tree, Parent(tree, Parent(tree, n))) \in {"program", "export_statement"}

\* is_js_function_binding
IsJsFunctionBinding(tree, n) ==
  /\ IsJsTopLevelBinding(tree, n)
  /\ ChildKind(tree, n, "value") \in {"arrow_function", "function_expression", "generator_function"}

SymbolKind(lang, tree, n) ==
  IF tree[n].kind \in DOMAIN SymbolKinds[lang] THEN SymbolKinds[lang][tree[n].kind]
  ELSE IF lang = "python" /\ IsPythonModuleAssignment(tree, n) THEN "constant"
  ELSE IF lang = "javascript" /\ IsJsFunctionBinding(tree, n) THEN "function"
  ELSE IF lang = "javascript" /\ IsJsTopLevelBinding(tree, n) THEN "constant"
  ELSE None

IsSymbol(lang, tree, n) == SymbolKind(lang, tree, n) # None

SymbolNameNode(lang, tree, n) ==
  Child(tree, n, IF lang = "python" /\ tree[n].kind = "assignment" THEN "left" ELSE "name")

SymbolName(lang, tree, n) ==
  IF SymbolNameNode(lang, tree, n) = 0 THEN <<>> ELSE tree[SymbolNameNode(lang, tree, n)].word

-----------------------------------------------------------------------------
(* What a chunk says *)

ContainerKinds ==
  [rust |-> {"mod_item", "trait_item", "struct_item", "enum_item", "type_item", "impl_item"},
   python |-> {"class_definition", "function_definition"},
   javascript |-> {"class_declaration", "class", "abstract_class_declaration",
                   "interface_declaration", "function_declaration", "function_signature",
                   "module"}]

\* The node a container takes its name from, or 0.
ContainerNameNode(lang, tree, n) ==
  IF tree[n].kind \notin ContainerKinds[lang] THEN 0
  ELSE Child(tree, n, IF tree[n].kind = "impl_item" THEN "type" ELSE "name")

\* container_for_node: the names around a node, outermost first.
ContainerForNode(lang, tree, n) ==
  LET named == Ascending({k \in DOMAIN tree : /\ k # n /\ Below(tree, k, n)
                                              /\ ContainerNameNode(lang, tree, k) # 0}, Len(tree))
  IN  [i \in DOMAIN named |-> tree[ContainerNameNode(lang, tree, named[i])].word]

\* extract_preceding_doc_text: the comment lines right above a row, blank
\* lines in between skipped.  Rows count from 1.
PrecedingDocRows(lines, row) ==
  LET text == {i \in 1..(row - 1) : lines[i] # "blank"}
  IN  {i \in text : \A j \in i..(row - 1) :
         lines[j] = "comment" \/ (lines[j] = "blank" /\ \A k \in text : k < j)}

\* extract_python_docstring: 0, or the string that is the body's first statement.
PythonDocstring(tree, n) ==
  LET child(k)  == IF k # 0 /\ k < Len(tree) /\ tree[k + 1].up = k THEN k + 1 ELSE 0
      statement == child(Child(tree, n, "body"))
      inner     == child(statement)
  IN  IF /\ Child(tree, n, "body") # 0
         /\ KindOf(tree, statement) = "expression_statement" /\ KindOf(tree, inner) = "string"
      THEN inner ELSE 0

DocText(lang, tree, lines, n) ==
  LET above == PrecedingDocRows(lines, tree[n].first)
  IN  IF above # {} THEN [rows |-> above, string |-> 0]
      ELSE [rows |-> {}, string |-> IF lang = "python" THEN PythonDocstring(tree, n) ELSE 0]

IdentifierLike == {"identifier", "type_identifier", "field_identifier",
                   "property_identifier", "shorthand_property_identifier"}

\* Mutation of Gathers: looks into nested symbols.
GathersAll(lang, tree, root, n) ==
  Below(tree, root, n) /\ tree[n].kind \in IdentifierLike

\* collect_identifier_terms, started at one symbol, comes to identifier n: it
\* turns back at every other symbol.
Gathers(lang, tree, root, n) ==
  /\ Below(tree, root, n) /\ tree[n].kind \in IdentifierLike
  /\ \A k \in (root + 1)..n : Below(tree, k, n) => ~IsSymbol(lang, tree, k)

\* extract_identifier_terms
IdentifierTerms(lang, tree, root) ==
  LET nodes == Ascending({n \in DOMAIN tree : Gathers(lang, tree, root, n)}, Len(tree))
      terms == Dedupe(FlattenSeq([i \in DOMAIN nodes |-> ExpandIdentifierTerms(tree[nodes[i]].word)]))
  IN  SubSeq(terms, 1, IF Len(terms) < TermLimit THEN Len(terms) ELSE TermLimit)

\* symbol_chunk_for_node returns a chunk.
HasChunk(lang, tree, n) ==
  /\ IsSymbol(lang, tree, n)
  /\ SymbolName(lang, tree, n) # <<>>
  /\ IdentifierTerms(lang, tree, n) # <<>>

SymbolChunkForNode(lang, tree, lines, n) ==
  [first |-> tree[n].first, last |-> tree[n].last, kind |-> SymbolKind(lang, tree, n),
   name |-> SymbolName(lang, tree, n), container |-> ContainerForNode(lang, tree, n),
   doc |-> DocText(lang, tree, lines, n), terms |-> IdentifierTerms(lang, tree, n)]

\* build_symbol_chunks and walk_node
BuildSymbolChunks(lang, tree, lines) ==
  LET nodes == Ascending({n \in DOMAIN tree : HasChunk(lang, tree, n)}, Len(tree))
  IN  [i \in DOMAIN nodes |-> SymbolChunkForNode(lang, tree, lines, nodes[i])]

-----------------------------------------------------------------------------
(* Reference *)

\* The innermost symbol around a node, itself included, or 0.
Innermost(lang, tree, n) ==
  LET around == {k \in DOMAIN tree : Below(tree, k, n) /\ IsSymbol(lang, tree, k)}
  IN  IF around = {} THEN 0 ELSE CHOOSE k \in around : \A j \in around : j <= k

\* Every identifier speaks for exactly one symbol, the innermost around it:
\* a chunk's terms are those of the identifiers it is the innermost symbol
\* of, so that a change inside a method leaves the class around it with the
\* text, and the vector, it had.
TermsAreOwned(lang, tree) ==
  \A n \in DOMAIN tree : HasChunk(lang, tree, n) =>
    LET owned == {k \in DOMAIN tree :
                    tree[k].kind \in IdentifierLike /\ Innermost(lang, tree, k) = n}
        terms == IdentifierTerms(lang, tree, n)
        all   == UNION {ToSet(ExpandIdentifierTerms(tree[k].word)) : k \in owned}
    IN  /\ ToSet(terms) \subseteq all
        /\ Len(terms) < TermLimit => ToSet(terms) = all
        /\ Cardinality(ToSet(terms)) = Len(terms)
=============================================================================
