------------------------------ MODULE Registry -------------------------------
(***************************************************************************)
(* Schema registry: how a protobuf.js JSON schema becomes descriptors      *)
(* (Build in internal/liqi/registry.go and message.go).  Types are resolved*)
(* from the innermost scope outwards, every namespace becomes a file that  *)
(* imports the files it refers to, and the oneofs of a message, declared   *)
(* ones, protobuf.js's synthetic ones and implicit ones, are laid out as   *)
(* the descriptor format wants them.                                       *)
(*                                                                         *)
(* A schema maps the path of every definition to the definition.           *)
(***************************************************************************)
EXTENDS Naturals, FiniteSets, SequencesExt, FiniteSetsExt

CONSTANT None   \* no type, no descriptors

(* A name is a word behind some underscores; entry marks the name that      *)
(* mapEntryName makes of a word.                                            *)
Name(word, bars) == [word |-> word, bars |-> bars, entry |-> FALSE]
EntryName(name) == [word |-> name.word, bars |-> 0, entry |-> TRUE]

(* sort.Strings: upper case, which an entry begins with, before "_" before  *)
(* lower case                                                               *)
Before(x, y) ==
    \/ x.entry /\ ~y.entry
    \/ x.entry /\ y.entry /\ x.bars < y.bars
    \/ ~x.entry /\ ~y.entry /\ x.bars > y.bars
    \/ x.entry = y.entry /\ x.bars = y.bars /\ x.word < y.word

(* The elements of a set in a strict order, given as the set of its pairs:  *)
(* the i-th element is the one with i - 1 elements below it.                *)
Below(S, order, x) == {y \in S : <<y, x>> \in order}
InOrder(S, order) ==
    [i \in 1..Cardinality(S) |-> CHOOSE x \in S : Cardinality(Below(S, order, x)) = i - 1]
Sorted(names) == InOrder(names, {pair \in names \X names : Before(pair[1], pair[2])})

(* Definitions: a namespace, an enum, a service with its methods, a message *)
(* with its fields and oneofs.  A reference is a path, relative or from the *)
(* root; the empty path stands for a scalar.                                *)
Namespace == [kind |-> "namespace"]
Enum == [kind |-> "enum"]
Service(methods) == [kind |-> "service", methods |-> methods]
Message(fields, oneofs) == [kind |-> "message", fields |-> fields, oneofs |-> oneofs]

(* What parse reads: a finite tree of definitions.  A definition, a field   *)
(* or a oneof may have the name of an entry, but no map: its own entry      *)
(* would have a name this model does not have.                              *)
NameType == [word : Nat, bars : Nat, entry : BOOLEAN]
RefType == [root : BOOLEAN, path : Seq(NameType)]
FieldType == [ref : RefType, optional : BOOLEAN, repeated : BOOLEAN, map : BOOLEAN]
Document(schema) ==
    /\ IsFiniteSet(DOMAIN schema)
    /\ \A p \in DOMAIN schema : LET def == schema[p] IN
        /\ p \in Seq(NameType) /\ p # << >>
        /\ def.kind = "service" => def.methods \in [DOMAIN def.methods -> [in : RefType, out : RefType]]
        /\ def.kind = "message" =>
            LET names == DOMAIN def.fields \cup DOMAIN def.oneofs IN
            /\ IsFiniteSet(names) /\ names \subseteq NameType
            /\ def.fields \in [DOMAIN def.fields -> FieldType]
            /\ \A f \in DOMAIN def.fields : def.fields[f].map => ~f.entry

Kind(schema, path) == IF path = << >> THEN "namespace" ELSE schema[path].kind
Paths(schema, kinds) == {p \in DOMAIN schema : schema[p].kind \in kinds}
Nested(schema, path) == {Last(p) : p \in {q \in DOMAIN schema : Front(q) = path}}

-----------------------------------------------------------------------------
(***************************************************************************)
(* collect and resolve.                                                    *)
(***************************************************************************)
WellNested(schema) == \A p \in DOMAIN schema :
    LET outer == Kind(schema, Front(p)) IN
    /\ outer \in {"namespace", "message"}
    /\ outer = "message" => schema[p].kind \in {"message", "enum"}

Symbols(schema) == Paths(schema, {"message", "enum"})

Prefix(path, n) == SubSeq(path, 1, n)
Package(schema, path) ==
    Prefix(path, Max({n \in 0..(Len(path) - 1) : Kind(schema, Prefix(path, n)) = "namespace"}))

Tried(ref, scope) == IF ref.root THEN {ref.path}
                     ELSE {Prefix(scope, n) \o ref.path : n \in 0..Len(scope)}

\* mutant: the root is searched first
OutermostFirst(paths) == CHOOSE p \in paths : \A q \in paths : Len(p) <= Len(q)
InnermostFirst(paths) == CHOOSE p \in paths : \A q \in paths : Len(p) >= Len(q)

Resolve(schema, ref, scope) ==
    LET found == Tried(ref, scope) \cap Symbols(schema) IN
    IF ref.path = << >> THEN << >>
    ELSE IF found = {} THEN None
    ELSE InnermostFirst(found)

(* The references of a definition                                           *)
Refs(def) == CASE def.kind = "message" -> {def.fields[f].ref : f \in DOMAIN def.fields}
               [] def.kind = "service" -> UNION {{def.methods[m].in, def.methods[m].out} : m \in DOMAIN def.methods}
               [] OTHER -> {}
ServiceValid(schema, path) == \A ref \in Refs(schema[path]) :
    LET type == Resolve(schema, ref, path) IN
    type # None /\ type # << >> /\ schema[type].kind = "message"

-----------------------------------------------------------------------------
(***************************************************************************)
(* message and field.                                                      *)
(***************************************************************************)
Synthetic(def, key) == \E f \in def.oneofs[key] \cap DOMAIN def.fields : def.fields[f].optional
InOneof(def, f) == \E key \in DOMAIN def.oneofs : f \in def.oneofs[key]
Used(schema, path) == DOMAIN schema[path].fields \cup Nested(schema, path)

OneofsValid(schema, path) == LET def == schema[path] IN
    /\ \A key \in DOMAIN def.oneofs :
        /\ def.oneofs[key] # {}
        /\ key \notin Used(schema, path)
        /\ Synthetic(def, key) => Cardinality(def.oneofs[key]) = 1
        /\ \A f \in def.oneofs[key] : /\ f \in DOMAIN def.fields
                                      /\ ~def.fields[f].repeated /\ ~def.fields[f].map
    /\ \A j, k \in DOMAIN def.oneofs : j # k => def.oneofs[j] \cap def.oneofs[k] = {}

FieldsValid(schema, path) == LET def == schema[path] IN
    \A f \in DOMAIN def.fields :
        /\ Resolve(schema, def.fields[f].ref, path) # None
        /\ ~(def.fields[f].optional /\ (def.fields[f].repeated \/ def.fields[f].map))
        /\ def.fields[f].map => ~def.fields[f].repeated /\ ~InOneof(def, f)

Maps(def) == {f \in DOMAIN def.fields : def.fields[f].map}
EntriesValid(schema, path) == LET def == schema[path] IN
    \A f \in Maps(def) :
        /\ EntryName(f) \notin Used(schema, path) \cup DOMAIN def.oneofs
        /\ \A g \in Maps(def) \ {f} : EntryName(f) # EntryName(g)

(* An optional field outside every oneof gets one of its own, named after   *)
(* the field with as many more underscores as make the name free.           *)
\* mutant: the name is taken without looking
OneBar(f, used) == [f EXCEPT !.bars = @ + 1]
FreeName(f, used) ==
    CHOOSE n \in {[f EXCEPT !.bars = f.bars + b] : b \in 1..(Cardinality(used) + 1)} :
        /\ n \notin used
        /\ \A b \in (f.bars + 1)..(n.bars - 1) : [f EXCEPT !.bars = b] \in used

ImplicitFields(def) == {f \in DOMAIN def.fields : def.fields[f].optional /\ ~InOneof(def, f)}
ImplicitOneofs(schema, path) == LET def == schema[path] IN
    LET order == Sorted(ImplicitFields(def))
        used == Used(schema, path) \cup DOMAIN def.oneofs
        taken[i \in 1..Cardinality(ImplicitFields(def))] ==
            FreeName(order[i], used \cup {taken[j] : j \in 1..(i - 1)})
    IN taken

\* mutant: synthetic oneofs stay where their name sorts them
ByName(def) == Sorted(DOMAIN def.oneofs)
RealFirst(def) == Sorted({k \in DOMAIN def.oneofs : ~Synthetic(def, k)})
                  \o Sorted({k \in DOMAIN def.oneofs : Synthetic(def, k)})

(* The place of a field's oneof among those of the message, 0 for none      *)
OneofIndex(def, f) ==
    IF InOneof(def, f) THEN CHOOSE i \in DOMAIN RealFirst(def) : f \in def.oneofs[RealFirst(def)[i]]
    ELSE IF f \in ImplicitFields(def)
    THEN LET order == Sorted(ImplicitFields(def)) IN
         Len(RealFirst(def)) + (CHOOSE i \in DOMAIN order : order[i] = f)
    ELSE 0

\* mutant: the fields stay in key order
KeyOrder(def) == Sorted(DOMAIN def.fields)
Earlier(def, f, g) ==
    \/ OneofIndex(def, f) < OneofIndex(def, g)
    \/ OneofIndex(def, f) = OneofIndex(def, g) /\ Before(f, g)
FieldOrder(def) == LET names == DOMAIN def.fields IN
    InOrder(names, {pair \in names \X names : Earlier(def, pair[1], pair[2])})

Descriptor(schema, path) == LET def == schema[path] IN
    [oneofs |-> RealFirst(def) \o ImplicitOneofs(schema, path),
     entries |-> {EntryName(f) : f \in Maps(def)},
     fields |-> [i \in DOMAIN FieldOrder(def) |->
        LET f == FieldOrder(def)[i] IN
        [name |-> f, oneof |-> OneofIndex(def, f), optional |-> def.fields[f].optional,
         type |-> Resolve(schema, def.fields[f].ref, path)]]]

-----------------------------------------------------------------------------
(***************************************************************************)
(* Build.                                                                  *)
(***************************************************************************)
Packages(schema) ==
    {Package(schema, p) : p \in Paths(schema, {"message", "enum", "service"})}

\* mutant: a file does not import what only its services use
MessageImports(schema, package) ==
    {Package(schema, type) : type \in UNION {{Resolve(schema, ref, p) : ref \in Refs(schema[p])} \ {<< >>} :
        p \in {q \in Paths(schema, {"message"}) : Package(schema, q) = package}}} \ {package}
Imports(schema, package) ==
    {Package(schema, type) : type \in UNION {{Resolve(schema, ref, p) : ref \in Refs(schema[p])} \ {<< >>} :
        p \in {q \in Paths(schema, {"message", "service"}) : Package(schema, q) = package}}} \ {package}

Descriptors(schema) ==
    IF /\ WellNested(schema)
       /\ \A p \in Paths(schema, {"message"}) :
            OneofsValid(schema, p) /\ FieldsValid(schema, p) /\ EntriesValid(schema, p)
       /\ \A p \in Paths(schema, {"service"}) : ServiceValid(schema, p)
       /\ Packages(schema) # {}
    THEN [messages |-> [p \in Paths(schema, {"message"}) |-> Descriptor(schema, p)],
          imports |-> [g \in Packages(schema) |-> Imports(schema, g)]]
    ELSE None

(* protodesc.NewFiles refuses files that import each other and names that   *)
(* are declared twice.                                                      *)
Accepted(schema, built) ==
    /\ \A files \in SUBSET DOMAIN built.imports :
            files # {} => \E g \in files : built.imports[g] \cap files = {}
    /\ \A p \in DOMAIN built.messages : DOMAIN schema[p].fields \cap Nested(schema, p) = {}

Builds(schema) == LET built == Descriptors(schema) IN built # None /\ Accepted(schema, built)

-----------------------------------------------------------------------------
(***************************************************************************)
(* What the descriptors must be.                                           *)
(***************************************************************************)
(* Every type is the definition the innermost scope gives the reference, a  *)
(* message or an enum, and lies in the same file or in one that is imported *)
(* (registry.go:53: unresolved types are never placeholders).               *)
Visible(schema, ref, scope, type) ==
    /\ type \in Symbols(schema)
    /\ IF ref.root THEN type = ref.path
       ELSE \E n \in 0..Len(scope) :
            /\ type = Prefix(scope, n) \o ref.path
            /\ \A inner \in (n + 1)..Len(scope) : Prefix(scope, inner) \o ref.path \notin Symbols(schema)

TypesResolved(schema, built) == \A p \in Paths(schema, {"message", "service"}) :
    \A ref \in {r \in Refs(schema[p]) : r.path # << >>} : \E type \in Symbols(schema) :
        /\ Visible(schema, ref, p, type)
        /\ Package(schema, type) \in {Package(schema, p)} \cup built.imports[Package(schema, p)]
        /\ p \in DOMAIN built.messages =>
            \E i \in DOMAIN built.messages[p].fields :
                LET field == built.messages[p].fields[i] IN
                schema[p].fields[field.name].ref = ref /\ field.type = type

(* The fields of a oneof stand next to each other; a synthetic oneof has    *)
(* one field, an optional one, and comes after all real ones; every optional*)
(* field has one; generated names are free (message.go:31, 115).            *)
LaidOut(schema, path, msg) ==
    LET Members(k) == {i \in DOMAIN msg.fields : msg.fields[i].oneof = k}
        Optional(k) == \E i \in Members(k) : msg.fields[i].optional
    IN /\ \A k \in DOMAIN msg.oneofs :
            /\ Members(k) # {} /\ Members(k) = Min(Members(k))..Max(Members(k))
            /\ Optional(k) => Cardinality(Members(k)) = 1 /\ \A j \in k..Len(msg.oneofs) : Optional(j)
       /\ \A i \in DOMAIN msg.fields : msg.fields[i].optional => msg.fields[i].oneof # 0
       /\ Cardinality(ToSet(msg.oneofs) \cup msg.entries \cup Used(schema, path))
            = Len(msg.oneofs) + Cardinality(msg.entries) + Cardinality(Used(schema, path))
OneofsLaidOut(schema, built) ==
    \A p \in DOMAIN built.messages : LaidOut(schema, p, built.messages[p])
=============================================================================
