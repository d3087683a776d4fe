------------------------------- MODULE TypeTable ------------------------------
(***************************************************************************)
(* TypeManager: the types of a compilation, each in the place of its id.   *)
(* A primitive, a generic, a struct and a function type belong to a symbol;*)
(* an instance, such as Array<Int>, belongs to what it is made of.  What   *)
(* the checker enters later in a function or struct type is in Checker.    *)
(***************************************************************************)
EXTENDS Naturals, Sequences

CONSTANTS Symbol,   \* SymbolIds
          MaxTypes, \* bound on the size of the table
          MaxArity  \* bound on the arguments of an instance

ASSUME TypeTableAssumption == MaxTypes \in Nat /\ MaxArity \in Nat

VARIABLES types,   \* TypeManager::types, an id is a position; 0 is the invalid id
          bySymbol \* types_by_symbol: the id of a symbol's type, or 0

table == <<types, bySymbol>>

Invalid == 0
SymbolKind == {"Primitive", "Generic", "Struct", "Function"}
Instance == "GenericInstance"

(* A type, as far as the table looks at it.                                *)
OfSymbol(kind) == [kind |-> kind, constructor |-> Invalid, arguments |-> << >>]
OfParts(constructor, arguments) == [kind |-> Instance, constructor |-> constructor, arguments |-> arguments]

Init == types = << >> /\ bySymbol = [s \in Symbol |-> Invalid]
-----------------------------------------------------------------------------
(* get_or_create, get_or_create_primitive and get_or_create_generic look   *)
(* at the symbol only.                                                     *)
KnownNever(s) == Invalid \* Variant: makes a new type each time.
Known(s) == bySymbol[s]
Create(s, kind) ==
  /\ Len(types) < MaxTypes
  /\ Known(s) = Invalid
  /\ types' = Append(types, OfSymbol(kind))
  /\ bySymbol' = [bySymbol EXCEPT ![s] = Len(types) + 1]

(* The search of get_or_create_generic_instance.                           *)
IsInstanceOfLatest(ts, i, constructor, arguments) == \* Variant: only the latest type is compared.
  i = Len(ts) /\ ts[i] = OfParts(constructor, arguments)
IsInstance(ts, i, constructor, arguments) ==
  ts[i] = OfParts(constructor, arguments)
HasInstance(ts, constructor, arguments) == \E i \in DOMAIN ts : IsInstance(ts, i, constructor, arguments)
InstanceId(ts, constructor, arguments) == CHOOSE i \in DOMAIN ts : IsInstance(ts, i, constructor, arguments)

CreateInstance(constructor, arguments) ==
  /\ Len(types) < MaxTypes
  /\ ~HasInstance(types, constructor, arguments)
  /\ types' = Append(types, OfParts(constructor, arguments))
  /\ UNCHANGED bySymbol

(* The caller has the ids that it asks for an instance of.                 *)
Arguments == UNION {[1 .. n -> DOMAIN types] : n \in 1 .. MaxArity}
Next ==
  \/ \E s \in Symbol, kind \in SymbolKind : Create(s, kind)
  \/ \E constructor \in DOMAIN types : \E arguments \in Arguments : CreateInstance(constructor, arguments)

Spec == Init /\ [][Next]_table
-----------------------------------------------------------------------------
(* TypeSystem::is_assignable: the same id, or instances of one constructor *)
(* whose arguments are assignable one by one, down to the ids that no      *)
(* instance has.  Ids of parts are smaller, so the recursion is over them. *)
Assignable(ts) ==
  LET fits[pair \in (0 .. Len(ts)) \X (0 .. Len(ts))] ==
        LET target == pair[1]  source == pair[2] IN
        /\ target # Invalid /\ source # Invalid
        /\ \/ target = source
           \/ /\ ts[target].kind = Instance /\ ts[source].kind = Instance
              /\ ts[target].constructor = ts[source].constructor
              /\ Len(ts[target].arguments) = Len(ts[source].arguments)
              /\ \A k \in DOMAIN ts[target].arguments : fits[<<ts[target].arguments[k], ts[source].arguments[k]>>]
  IN  fits
-----------------------------------------------------------------------------
TypeOK ==
  /\ types \in Seq([kind : SymbolKind \cup {Instance}, constructor : Nat, arguments : Seq(Nat)])
  /\ bySymbol \in [Symbol -> 0 .. Len(types)]

(* Every type has one owner: a symbol, that no other type has, or its      *)
(* parts, that no other instance has.                                      *)
OneOwner ==
  /\ \A s, t \in Symbol : bySymbol[s] # Invalid /\ bySymbol[s] = bySymbol[t] => s = t
  /\ \A s \in Symbol : bySymbol[s] # Invalid => types[bySymbol[s]].kind # Instance
  /\ \A i, j \in DOMAIN types : types[i].kind = Instance /\ types[i] = types[j] => i = j

(* The parts of an instance are older than it: is_assignable, which goes   *)
(* down into them, ends.                                                   *)
PartsAreOlder ==
  \A i \in DOMAIN types : types[i].kind = Instance =>
    /\ types[i].constructor \in 1 .. i - 1
    /\ \A k \in DOMAIN types[i].arguments : types[i].arguments[k] \in 1 .. i - 1

Interned == TypeOK /\ OneOwner /\ PartsAreOlder

(* Going down into instances finds nothing that comparing ids has not      *)
(* found: a type is assignable to itself alone.                            *)
AssignableIsSame ==
  \A i, j \in DOMAIN types : Assignable(types)[<<i, j>>] <=> i = j

(* The promise of the table (Interning): what is asked for by a symbol, or *)
(* by a constructor and its arguments, is given one id for ever.           *)
BySymbol(s) == <<"symbol", s>>
ByParts(constructor, arguments) == <<"parts", constructor, arguments>>
Id == 1 .. MaxTypes
Key ==
  {BySymbol(s) : s \in Symbol}
    \cup {ByParts(c, a) : c \in Id, a \in UNION {[1 .. n -> Id] : n \in 1 .. MaxArity}}
Given ==
  {<<BySymbol(s), bySymbol[s]>> : s \in {x \in Symbol : bySymbol[x] # Invalid}}
    \cup {<<ByParts(types[i].constructor, types[i].arguments), i>> : i \in {k \in DOMAIN types : types[k].kind = Instance}}
Interns == INSTANCE Interning WITH given <- Given
KeepsPromise == Interns!Spec
=============================================================================
