-------------------------- MODULE MCDocumentLoader --------------------------
(* Directories for the model checker: many directories of one file, for the *)
(* chunkers, and a few of up to four files, for the threads.                *)
EXTENDS DocumentLoader

-----------------------------------------------------------------------------
(* Syntax trees in visiting order.  Shift puts a tree under another one.     *)

Node(kind, field, rows, word) ==
  <<[up |-> 0, kind |-> kind, field |-> field, first |-> rows[1], last |-> rows[2], word |-> word]>>

Under(top, children) ==
  FoldLeft(LAMBDA tree, child :
             tree \o [k \in DOMAIN child |->
                        [child[k] EXCEPT !.up = IF @ = 0 THEN 1 ELSE @ + Len(tree)]],
           top, children)

Ident(field, row, word) == Node("identifier", field, <<row, row>>, word)

Words == {<<"a">>, <<"A", "b">>, <<"a", "B", "_", "a">>, <<"_">>, <<"B", "1", "A">>, <<"1", "_", "B">>}

\* fn outer() { inner }, inside a module or an impl block or on its own, with
\* a constant next to it
RustFn(name, word) ==
  Under(Node("function_item", "", <<3, 5>>, <<>>),
        <<Ident("name", 3, name), Under(Node("block", "body", <<3, 5>>, <<>>),
          <<Ident("", 4, word),
            Under(Node("const_item", "", <<4, 4>>, <<>>), <<Ident("name", 4, <<"B", "_", "A">>)>>)>>)>>)

RustTrees ==
  {Under(Node("source_file", "", <<1, 6>>, <<>>),
         <<Under(Node(outer, "", <<2, 6>>, <<>>),
                 <<Node("type_identifier", field, <<2, 2>>, <<"A">>), RustFn(name, word)>>)>>) :
     outer \in {"mod_item", "impl_item", "trait_item", "block"}, field \in {"name", "type"},
     name \in {<<>>, <<"a">>}, word \in Words}

\* class A: "doc"; a = 1;  def f(): x      a = b at the top or in a function
PythonAssignment(word) ==
  Under(Node("expression_statement", "", <<4, 4>>, <<>>),
        <<Under(Node("assignment", "", <<4, 4>>, <<>>),
                <<Ident("left", 4, word), Ident("right", 4, <<"b", "A">>)>>)>>)

PythonTrees ==
  {Under(Node("module", "", <<1, 6>>, <<>>), <<PythonAssignment(word)>>) : word \in Words} \cup
  {Under(Node("module", "", <<1, 6>>, <<>>),
         <<Under(Node(outer, "", <<2, 6>>, <<>>),
                 <<Ident("name", 2, <<"A">>),
                   Under(Node("block", "body", <<3, 6>>, <<>>),
                         <<Under(Node("expression_statement", "", <<3, 3>>, <<>>),
                                 <<Node(first, "", <<3, 3>>, <<>>)>>),
                           PythonAssignment(word)>>)>>)>>) :
     outer \in {"class_definition", "function_definition"}, first \in {"string", "call"},
     word \in Words}

\* const name = value; where value may hold a class without a name; the
\* keyword `class` is a node too.
JsClass(word) ==
  Under(Node("class", "value", <<3, 5>>, <<>>),
        <<Node("class", "", <<3, 3>>, <<>>), Node("property_identifier", "", <<4, 4>>, word),
          Under(Node("method_definition", "", <<5, 5>>, <<>>),
                <<Node("property_identifier", "name", <<5, 5>>, <<"b">>), Ident("", 5, <<"a", "A">>)>>)>>)

JsTrees ==
  {Under(Node("program", "", <<1, 6>>, <<>>),
         <<Under(Node(around, "", <<2, 6>>, <<>>),
                 <<Under(Node("lexical_declaration", "", <<3, 5>>, <<>>),
                         <<Under(Node("variable_declarator", "", <<3, 5>>, <<>>),
                                 <<Ident("name", 3, <<"a">>), value>>)>>)>>)>>) :
     around \in {"export_statement", "class_declaration"},
     value \in {JsClass(word) : word \in Words} \cup
               {Under(Node(fn, "value", <<3, 5>>, <<>>), <<Ident("", 4, word)>>) :
                  fn \in {"arrow_function", "object"}, word \in Words}}

CodeBody(extension, tree, rows) == [extension |-> extension, tree |-> tree, rows |-> rows]
Rows == <<"comment", "blank", "code", "comment", "code", "code">>

CodeBodies ==
  {CodeBody("rs", t, Rows) : t \in RustTrees} \cup
  {CodeBody("py", t, Rows) : t \in PythonTrees} \cup
  {CodeBody("tsx", t, Rows) : t \in JsTrees}

-----------------------------------------------------------------------------
(* Texts: every body of up to three of these lines                           *)

TextBody(lines) == [extension |-> "md", lines |-> lines]
Lines == {<<>>, <<"blank">>, <<"short">>, <<"long">>, <<"short", "short">>,
          <<"short", "long">>, <<"long", "short">>}
TextBodies == {TextBody(lines) : lines \in BoundedSeq(Lines, 3)}

-----------------------------------------------------------------------------
File(body) == [named |-> TRUE, size |-> "fits", text |-> TRUE, tooLong |-> FALSE, body |-> body]

\* A note of two chunks, one of one, one without any; a program, and one
\* without a symbol; a file over the line limit; one that is not text; one that
\* is too large; one whose name is not on the list.
Note    == File(TextBody(<<<<"long">>, <<"short">>>>))
Memo    == File(TextBody(<<<<"short", "short">>>>))
White   == File(TextBody(<<<<"blank">>>>))
Program == File(CodeBody("rs", RustFn(<<"a">>, <<"A", "b">>), [r \in 1..5 |-> "code"]))
Script  == File(CodeBody("rs", Ident("", 1, <<"a">>), <<"code">>))
Endless == [Note EXCEPT !.tooLong = TRUE]
Binary  == [Note EXCEPT !.text = FALSE]
Large   == [Note EXCEPT !.size = "huge"]

Config  == [Note EXCEPT !.named = FALSE]

Written == {Memo, White, Script}

Dirs ==
  {<<File(body)>> : body \in CodeBodies \cup TextBodies} \cup
  {<<f>> : f \in {Endless, Binary, Large, Config}} \cup
  {<<>>, <<Note, Memo, Program, White>>, <<Note, Program, Note, Memo>>, <<Memo, Endless, Note>>,
   <<Binary, Note, Large, Program>>, <<Note, Config, White>>, <<White, Memo>>, <<Note, Memo, Note, Program, Memo>>}

Chunks == [l \in Level |-> IF l = "fts" THEN 2 ELSE 1]

\* Directories of one file are for the chunkers: one command is enough.
MCInit ==
  /\ Init
  /\ Len(disk) = 1 => command = [kind |-> "init", level |-> "fts", threads |-> Unset]

MCSpec == MCInit /\ [][Next]_vars /\ WF_vars(Zg)
=============================================================================
