----------------------------- MODULE MCCommands ------------------------------
(* Two commands at a time over two versions; the schemas are small documents *)
(* of every shape the registry treats in its own way.                       *)
EXTENDS Commands

CONSTANTS p1, p2, v1, v2, r1, r2, d1, d2, c1, c2

MCPrefixOf == (v1 :> r1) @@ (v2 :> r2)

N(word) == Name(word, 0)
Rel(path) == [root |-> FALSE, path |-> path]
Abs(path) == [root |-> TRUE, path |-> path]
Scalar == Rel(<< >>)
Field(ref, optional, repeated, map) ==
    [ref |-> ref, optional |-> optional, repeated |-> repeated, map |-> map]
Plain == Field(Scalar, FALSE, FALSE, FALSE)

(* One message, and a document that cannot be built: two namespaces that    *)
(* import each other.                                                       *)
Simple == (<<N(1)>> :> Message(N(1) :> Plain, << >>))
Circular ==
    (<<N(1)>> :> Namespace) @@ (<<N(2)>> :> Namespace)
    @@ (<<N(1), N(3)>> :> Message(N(1) :> Field(Abs(<<N(2), N(3)>>), FALSE, FALSE, FALSE), << >>))
    @@ (<<N(2), N(3)>> :> Message(N(1) :> Field(Abs(<<N(1), N(3)>>), FALSE, FALSE, FALSE), << >>))

(* A name may be defined in each of the scopes a reference is looked up in. *)
Places == {<<N(3)>>, <<N(1), N(3)>>, <<N(1), N(2), N(3)>>, <<N(2), N(3)>>}
Scoped == {
    (<<N(1)>> :> Namespace)
    @@ (<<N(1), N(2)>> :> Message(N(4) :> Field(ref, FALSE, FALSE, FALSE), << >>))
    @@ [p \in places |-> def]
    @@ (IF <<N(2), N(3)>> \in places THEN <<N(2)>> :> Namespace ELSE << >>)
    @@ (IF service THEN <<N(1), N(5)>> :> Service(N(6) :> [in |-> ref, out |-> Rel(<<N(2)>>)]) ELSE << >>) :
      places \in SUBSET Places, def \in {Message(N(1) :> Plain, << >>), Enum},
      ref \in {Rel(<<N(3)>>), Abs(<<N(3)>>), Rel(<<N(2), N(3)>>)}, service \in BOOLEAN}

(* One message with up to three fields in and out of up to two oneofs.      *)
FieldKinds == {Plain, Field(Scalar, TRUE, FALSE, FALSE), Field(Scalar, FALSE, FALSE, TRUE)}
FieldNames == {Name(1, 0), Name(1, 1), Name(2, 0)}
OneofNames == {Name(0, 0), Name(1, 1), Name(1, 2)}
Grouped == {
    (<<N(1)>> :> Message(fields, oneofs)) :
      fields \in [FieldNames -> FieldKinds],
      oneofs \in UNION {[names -> {{f} : f \in FieldNames} \cup {{Name(1, 1), Name(2, 0)}}] :
                        names \in {o \in SUBSET OneofNames : Cardinality(o) <= 2}}}

(* A map beside something that has the name of an entry.                    *)
Entered == {
    (<<N(1)>> :> Message((N(1) :> Field(Scalar, FALSE, FALSE, TRUE)) @@ (N(2) :> Plain)
                         @@ (IF what \in {"field", "optional"}
                             THEN EntryName(N(word)) :> Field(Scalar, what = "optional", FALSE, FALSE)
                             ELSE << >>),
                         IF what = "oneof" THEN EntryName(N(word)) :> {N(2)} ELSE << >>))
    @@ (IF what = "nested" THEN <<N(1), EntryName(N(word))>> :> Enum ELSE << >>) :
      what \in {"field", "optional", "oneof", "nested"}, word \in {1, 3}}

Documents == Scoped \cup Grouped \cup Entered

(* Three commands at a time over one message; one command over each of the  *)
(* other documents; three servers one after the other.                      *)
MCInit ==
    /\ menu \in {"cache", "mcp"}
    /\ current = v1
    /\ \/ /\ menu = "cache"
          /\ schemas = (d1 :> Simple) @@ (d2 :> Simple)
          /\ hosted \in {h \in [ResVersions -> {d1, d2}] : h[r1] = d1}
          /\ changes = 0 /\ left = MaxStarts
       \/ /\ menu = "cache"
          /\ schemas \in {(d1 :> doc) @@ (d2 :> Circular) : doc \in Documents \cup {Circular}}
          /\ hosted = [r \in ResVersions |-> d1]
          /\ changes = MaxChanges /\ left = 1
       \/ /\ menu = "mcp"
          /\ schemas = (d1 :> Simple) @@ (d2 :> Simple)
          /\ hosted = [r \in ResVersions |-> d1]
          /\ changes = 0 /\ left = MaxStarts
    /\ token \in IF menu = "cache" THEN {"absent"} ELSE {"absent", "empty", "written"}
    /\ Init

MCSpec == MCInit /\ [][Next]_vars /\ Fairness
=============================================================================
