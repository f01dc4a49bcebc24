------------------------------ MODULE TupleSchemas ------------------------------
(***************************************************************************)
(* Tuples in the schema of a structured answer                             *)
(* (src/translation/tuple-schema.ts, shared-utils.ts): the backend takes   *)
(* no prefixItems, so that prepareSchema asks for objects with the keys    *)
(* "0", "1", ... in their place, and reconvertTupleValues turns the answer *)
(* back with the schema the client sent.                                   *)
(*                                                                         *)
(* A schema is a type with its parts: a leaf, a $ref to the one definition,*)
(* prefixItems, properties, patternProperties, items, anyOf (as for oneOf, *)
(* allOf), conditional (the then and else of an if), or mixed: properties  *)
(* beside an anyOf whose branches describe one more property.  What an if  *)
(* or a not holds describes no value.                                      *)
(* Bound: schemas of Depth levels, of two parts at most.                   *)
(***************************************************************************)
EXTENDS Integers, Sequences, SequencesExt, FiniteSets

CONSTANT Depth

VARIABLES
    original,   \* the schema, and its definition, as the client sent it
    prepared,   \* as the backend gets it
    tuples,     \* tupleSchema was kept for the answer
    answer,     \* the answer: an instance of what was asked
    restored    \* as the client gets it

schemaVars == <<original, prepared, tuples, answer, restored>>

Node(type, parts) == [type |-> type, parts |-> parts]
Leaf == Node("leaf", <<>>)
Ref == Node("ref", <<>>)
Nothing == Node("nothing", <<>>)

RECURSIVE Schemas(_, _)
Schemas(depth, leaves) ==
    IF depth = 0 THEN leaves
    ELSE LET smaller == Schemas(depth - 1, leaves)
             one == {<<p>> : p \in smaller}
             two == {<<p, q>> : p \in smaller, q \in smaller}
         IN  smaller \cup {Node(t, s) : t \in {"object", "pattern", "items"}, s \in one}
                     \cup {Node(t, s) : t \in {"tuple", "anyOf", "conditional"}, s \in one \cup two}
                     \cup {Node("mixed", s) : s \in two}

-----------------------------------------------------------------------------
(* The conversion *)

\* The walks go down everything but patternProperties, and through no $ref.
Walked(s) == IF s.type = "pattern" THEN <<>> ELSE s.parts

RECURSIVE HasTupleSchemas(_)
HasTupleSchemas(s) ==
    s.type = "tuple" \/ \E i \in DOMAIN Walked(s) : HasTupleSchemas(Walked(s)[i])

RECURSIVE ConvertOuter(_)
\* Mutant: a tuple in a tuple stays.
ConvertOuter(s) ==
    CASE s.type = "tuple" -> Node("numbered", s.parts)
      [] s.type = "pattern" -> s
      [] OTHER -> Node(s.type, [i \in DOMAIN s.parts |-> ConvertOuter(s.parts[i])])

RECURSIVE ConvertWalk(_)
ConvertWalk(s) ==
    IF s.type = "pattern" THEN s
    ELSE Node(IF s.type = "tuple" THEN "numbered" ELSE s.type,
              [i \in DOMAIN s.parts |-> ConvertWalk(s.parts[i])])

ConvertTupleSchemas(s) == ConvertWalk(s)

RECURSIVE WalkSchema(_)
\* Every object without additionalProperties gets none, those of patterns too.  (Nothing
\* fits a mixed one without: it has them.)
WalkSchema(s) ==
    Node(CASE s.type = "object" -> "closed"
           [] s.type = "pattern" -> "closed pattern"
           [] OTHER -> s.type,
         [i \in DOMAIN s.parts |-> WalkSchema(s.parts[i])])

-----------------------------------------------------------------------------
(* Values: an array, an object, one with the keys of a tuple, or a leaf *)

IsRecord(v) == v.type \in {"object", "numbered"}

\* The sequences with an element of each set.
Combined(sets) ==
    FoldLeft(LAMBDA done, set : {Append(d, v) : d \in done, v \in set}, {<<>>}, sets)

RECURSIVE Instances(_, _)
Instances(s, def) ==
    LET each == [i \in DOMAIN s.parts |-> Instances(s.parts[i], def)] IN
    CASE s.type = "leaf" -> {Leaf}
      [] s.type = "ref" -> Instances(def, Leaf)
      [] s.type = "tuple" -> {Node("array", c) : c \in Combined(each)}
      [] s.type = "numbered" -> {Node("numbered", c) : c \in Combined(each)}
      [] s.type = "items" -> {Node("array", <<>>)} \cup {Node("array", c) : c \in Combined(each)}
      [] s.type = "anyOf" -> UNION {each[i] : i \in DOMAIN each}
      [] s.type = "conditional" ->
            UNION {each[i] : i \in DOMAIN each} \cup (IF Len(each) = 1 THEN {Leaf} ELSE {})
      [] OTHER -> {Node("object", c) : c \in Combined(each)}

\* Mutant: what a $ref refers to is not looked up.
Unresolved(def) == Leaf

ResolveRef(def) == def

RECURSIVE Reconvert(_, _, _)
\* reconvertTupleValues: of the branches of a combinator, the first with a tuple in it;
\* none of the properties of a mixed node's branches, and none of a conditional's.
Reconvert(v, s, def) ==
    LET Each(schemas) == [i \in DOMAIN v.parts |-> Reconvert(v.parts[i], schemas[i], def)]
        tuple == {i \in DOMAIN s.parts : HasTupleSchemas(s.parts[i])}
    IN
    CASE s.type = "ref" -> Reconvert(v, ResolveRef(def), def)
      [] s.type = "tuple" /\ IsRecord(v) ->
            Node("array", [i \in DOMAIN s.parts |->
                IF v.type = "numbered" /\ i \in DOMAIN v.parts
                THEN Reconvert(v.parts[i], s.parts[i], def) ELSE Nothing])
      [] s.type = "object" /\ v.type = "object" -> Node(v.type, Each(s.parts))
      [] s.type = "mixed" /\ v.type = "object" ->
            Node(v.type, [v.parts EXCEPT ![1] = Reconvert(@, s.parts[1], def)])
      [] s.type = "items" /\ v.type = "array" ->
            Node(v.type, [i \in DOMAIN v.parts |-> Reconvert(v.parts[i], s.parts[1], def)])
      [] s.type = "anyOf" /\ tuple # {} ->
            Reconvert(v, s.parts[CHOOSE i \in tuple : \A j \in tuple : i <= j], def)
      [] OTHER -> v

-----------------------------------------------------------------------------
(* A request with a schema *)

\* prepareSchema: the original is kept only if there are tuples in it.  The walk ends at a
\* tuple, so that it does not come to the definitions beside one.
PrepareSchema ==
    LET has == HasTupleSchemas(original.schema) \/ HasTupleSchemas(original.def)
        Converted(s) == IF has THEN ConvertTupleSchemas(s) ELSE s
        def == IF original.schema.type = "tuple" THEN original.def ELSE Converted(original.def)
    IN
    /\ prepared.schema = Nothing
    /\ tuples' = has
    /\ prepared' = [schema |-> WalkSchema(Converted(original.schema)), def |-> WalkSchema(def)]
    /\ UNCHANGED <<original, answer, restored>>

BackendAnswers ==
    /\ prepared.schema # Nothing /\ answer = Nothing
    /\ answer' \in Instances(prepared.schema, prepared.def)
    /\ UNCHANGED <<original, prepared, tuples, restored>>

Restore ==
    /\ answer # Nothing /\ restored = Nothing
    /\ restored' = IF tuples THEN Reconvert(answer, original.schema, original.def) ELSE answer
    /\ UNCHANGED <<original, prepared, tuples, answer>>

SchemaInit ==
    /\ original \in [schema : Schemas(Depth, {Leaf, Ref}),
                     def : {Leaf, Node("tuple", <<Leaf>>), Node("items", <<Node("tuple", <<Leaf, Leaf>>)>>)}]
    /\ prepared = [schema |-> Nothing, def |-> Nothing] /\ tuples = FALSE
    /\ answer = Nothing /\ restored = Nothing

SchemaNext == PrepareSchema \/ BackendAnswers \/ Restore

SchemaSpec == SchemaInit /\ [][SchemaNext]_schemaVars

-----------------------------------------------------------------------------
(* Properties *)

RECURSIVE Within(_)
\* The schemas within a schema, itself among them.
Within(s) == {s} \cup UNION {Within(s.parts[i]) : i \in DOMAIN s.parts}

Anywhere(type, s) == \E n \in Within(s) : n.type = type

Plain(s) == ~HasTupleSchemas(s) /\ Ref \notin Within(s)

\* The walk back comes to every tuple the way out converted, and has no choice to make:
\* one branch of a combinator is more than a leaf, no $ref is within combinators or
\* patternProperties, and no tuple in a conditional or in a branch beside properties.
WalksAgree(s) ==
    \A n \in Within(s) :
       /\ n.type \in {"anyOf", "pattern"} =>
             Ref \notin Within(n) /\ Len(SelectSeq(n.parts, LAMBDA p : p # Leaf)) <= 1
       /\ n.type = "conditional" => \A i \in DOMAIN n.parts : Plain(n.parts[i])
       /\ n.type = "mixed" => Plain(n.parts[2])

\* Schemas, values and what is kept of them have their types.
SchemaTypeOK ==
    /\ prepared.schema = Nothing => ~tuples /\ answer = Nothing
    /\ answer = Nothing => restored = Nothing
    /\ \A n \in Within(answer) : n.type \in {"nothing", "leaf", "array", "object", "numbered"}

\* However tuples are nested in objects, arrays, definitions and one another, the client
\* gets an answer that is valid by the schema it sent, where the walks agree on the
\* schema.  (Elsewhere it may not: TuplesRestored does not hold.)
RestoredIsValid ==
    restored # Nothing /\ WalksAgree(original.schema)
    => restored \in Instances(original.schema, original.def)

\* The backend is asked for no tuple, at any depth, outside patternProperties and the
\* definitions beside a tuple.
AsksNoTuples ==
    \A s \in {prepared.schema} \cup (IF original.schema.type = "tuple" THEN {} ELSE {prepared.def}) :
        Anywhere("tuple", s) => Anywhere("closed pattern", s)

\* The backend can serve a schema with tuples, and where the walks agree its client does
\* not see how.
TuplesKept == SchemaTypeOK /\ RestoredIsValid /\ AsksNoTuples

\* "reconvertTupleValues() restores {"0":...,"1":...} back to [...,...]"
\* (tuple-schema.ts:6), whatever the schema.  A tuple in anyOf behind a $ref stays an
\* object, as one in a conditional or in a combinator beside properties; of several
\* branches the first with a tuple is taken for all.
TuplesRestored == restored # Nothing => restored \in Instances(original.schema, original.def)

\* "rewrites prefixItems" (tuple-schema.ts:5), those in patternProperties too.
NoPrefixItems == ~Anywhere("tuple", prepared.schema)

\* Where it has no choice to make, it does: a tuple in then or else, or in a branch beside
\* properties, is converted and never restored.
RestoredWithoutChoice ==
    restored # Nothing /\ (\A n \in Within(original.schema) : n.type \notin {"anyOf", "pattern", "ref"})
    => restored \in Instances(original.schema, original.def)
=============================================================================
