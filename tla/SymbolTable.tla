---------------------------- MODULE SymbolTable ----------------------------
(***************************************************************************)
(* The symbol tables of cilk2c (src/cilk2c/symbol.c): hash tables whose    *)
(* buckets chain the entries of different names, each the symbols of one   *)
(* name, the innermost first and the ones it shadows behind it.            *)
(*                                                                         *)
(* The end of a scope removes nothing.  A symbol carries the level and the *)
(* version of its scope, the number of scopes entered at that level so     *)
(* far, and is found stale and freed when an operation comes across it.    *)
(*                                                                         *)
(* Two tables share the level and the versions: Identifiers, which is      *)
(* nested, and Labels, which is flat.  The chains of pointers are          *)
(* sequences here.                                                         *)
(***************************************************************************)
EXTENDS Integers, SequencesExt

CONSTANTS Names, Vars,
          hash(_),          \* the bucket of a name
          MAX_SCOPE_DEPTH,
          MaxVersion        \* scopes entered at a level, in the range of a short
ASSUME SymbolTableAssumption == MAX_SCOPE_DEPTH \in Nat \ {0} /\ MaxVersion \in Nat

NoVar   == "no variable"
Tables  == {"Identifiers", "Labels"}
Levels  == 0 .. MAX_SCOPE_DEPTH - 1
Buckets == {hash(n) : n \in Names}

VARIABLES table,            \* the entries of each bucket of each table
          Level,
          current_version,  \* by level
          scopes,           \* the variables of the symbols made at each level
          answer            \* the variables the last operation returned or reported

vars == <<table, Level, current_version, scopes, answer>>

Init ==
    /\ table = [t \in Tables |-> [b \in Buckets |-> <<>>]]
    /\ Level = 0
    /\ current_version = [l \in Levels |-> 0]
    /\ scopes = [l \in Levels |-> {}]
    /\ answer = {}

-----------------------------------------------------------------------------
\* mutant: a scope has the version of the one before it at its level.
EnterScopeAgain ==
    /\ Level + 1 < MAX_SCOPE_DEPTH
    /\ Level' = Level + 1
    /\ answer' = {}
    /\ UNCHANGED <<table, scopes, current_version>>

EnterScope ==
    /\ Level + 1 < MAX_SCOPE_DEPTH
    /\ current_version[Level + 1] < MaxVersion
    /\ Level' = Level + 1
    /\ current_version' = [current_version EXCEPT ![Level'] = @ + 1]
    /\ answer' = {}
    /\ UNCHANGED <<table, scopes>>

ExitScope ==
    /\ Level > 0
    /\ answer' = scopes[Level]
    /\ scopes' = [scopes EXCEPT ![Level] = {}]
    /\ Level' = Level - 1
    /\ UNCHANGED <<table, current_version>>

stale(sym) ==
    \/ sym.level > Level
    \/ current_version[sym.level] > sym.version

RECURSIVE DropStale(_)
DropStale(syms) ==
    IF syms /= <<>> /\ stale(Head(syms)) THEN DropStale(Tail(syms)) ELSE syms

(* The place of n's entry in its chain, or 0, and what is left of it. *)
Place(t, n) == SelectInSeq(table[t][hash(n)], LAMBDA e : e.name = n)
Left(t, n)  == IF Place(t, n) = 0 THEN <<>>
               ELSE DropStale(table[t][hash(n)][Place(t, n)].syms)

\* mutant: an entry stays in its chain without symbols.
ChainedForGood(t, n, syms) ==
    LET chain == table[t][hash(n)]
        i     == Place(t, n)
        entry == [name |-> n, syms |-> syms]
    IN  IF i = 0 THEN <<entry>> \o chain ELSE [chain EXCEPT ![i] = entry]

(* The chain with syms for n's entry; a new entry comes first, an empty    *)
(* one goes.                                                               *)
Chained(t, n, syms) ==
    LET chain == table[t][hash(n)]
        i     == Place(t, n)
        entry == [name |-> n, syms |-> syms]
    IN  CASE i = 0 /\ syms = <<>>  -> chain
          [] i = 0 /\ syms /= <<>> -> <<entry>> \o chain
          [] i > 0 /\ syms = <<>>  -> RemoveAt(chain, i)
          [] i > 0 /\ syms /= <<>> -> [chain EXCEPT ![i] = entry]

LookupSymbol(t, n) ==
    LET left == Left(t, n)
    IN  /\ table' = [table EXCEPT ![t][hash(n)] = Chained(t, n, left)]
        /\ answer' = IF left = <<>> THEN {} ELSE {Head(left).var}
        /\ UNCHANGED <<Level, current_version, scopes>>

(* A flat table's symbols belong to scope (0,0), whose list is never read. *)
(* The symbol is on the list of its scope even if it loses a conflict.     *)
InsertSymbol(t, n, v) ==
    LET level    == IF t = "Identifiers" THEN Level ELSE 0
        version  == IF t = "Identifiers" THEN current_version[Level] ELSE 0
        left     == Left(t, n)
        conflict == left /= <<>> /\ Head(left).level = level
        sym      == [var |-> v, level |-> level, version |-> version]
    IN  /\ scopes' = IF level > 0 THEN [scopes EXCEPT ![level] = @ \cup {v}] ELSE scopes
        /\ table' = [table EXCEPT ![t][hash(n)] =
                        Chained(t, n, IF conflict THEN left ELSE <<sym>> \o left)]
        /\ answer' = {IF conflict THEN Head(left).var ELSE v}
        /\ UNCHANGED <<Level, current_version>>

(* InsertUniqueSymbol makes names up until one is not to be found. *)
InsertUniqueSymbol(n, v) ==
    Left("Identifiers", n) = <<>> /\ InsertSymbol("Identifiers", n, v)

Symbols(t) == UNION {UNION {Range(table[t][b][i].syms) : i \in DOMAIN table[t][b]} :
                        b \in Buckets}

(* ResetSymbolTable, of Labels at the end of a procedure. *)
ResetSymbolTable ==
    /\ answer' = {sym.var : sym \in Symbols("Labels")}
    /\ table' = [table EXCEPT !["Labels"] = [b \in Buckets |-> <<>>]]
    /\ UNCHANGED <<Level, current_version, scopes>>

(* Variables are told apart: a new one is not in use. *)
InUse == {sym.var : sym \in Symbols("Identifiers") \cup Symbols("Labels")}
         \cup UNION {scopes[l] : l \in Levels}

Next ==
    \/ EnterScope \/ ExitScope \/ ResetSymbolTable
    \/ \E n \in Names :
          \/ \E t \in Tables :
                \/ LookupSymbol(t, n)
                \/ \E v \in Vars \ InUse : InsertSymbol(t, n, v)
          \/ \E v \in Vars \ InUse : InsertUniqueSymbol(n, v)

Spec == Init /\ [][Next]_vars

-----------------------------------------------------------------------------
(* The scopes the tables stand for. *)

Entry(t, n)  == IF Place(t, n) = 0 THEN <<>> ELSE table[t][hash(n)][Place(t, n)].syms
OnLevel(n, l) ==
    LET syms == Entry("Identifiers", n)
        i    == SelectInSeq(syms, LAMBDA s : ~stale(s) /\ s.level = l)
    IN  IF i = 0 THEN NoVar ELSE syms[i].var

Scopes == INSTANCE Scoping WITH
    scope   <- [i \in 1 .. Level + 1 |-> [n \in Names |-> OnLevel(n, i - 1)]],
    members <- [i \in 1 .. Level + 1 |-> scopes[i - 1]],
    flat    <- [n \in Names |-> LET syms == Entry("Labels", n)
                                IN  IF syms = <<>> THEN NoVar ELSE Head(syms).var]

(* The tables are plain nested and flat scopes: whatever stale symbols an  *)
(* operation meets and removes, a lookup finds the innermost declaration   *)
(* of an open scope, a declaration wins or loses against its own scope     *)
(* only, and each variable is reported dead once, when its scope ends      *)
(* (InsertSymbol, LookupSymbol, ExitScope).                                *)
ImplementsScoping == Scopes!Spec

(* The assertions of symbol.c and what its loops rely on: a name has one   *)
(* entry, an entry at least one symbol; levels decrease inwards, so that   *)
(* the stale symbols of an entry all come before the others; and a flat    *)
(* table shadows nothing and never has a stale symbol.                     *)
ChainsSound ==
    \A t \in Tables, b \in Buckets :
        LET chain == table[t][b]
        IN  /\ \A i, j \in DOMAIN chain : chain[i].name = chain[j].name => i = j
            /\ \A i \in DOMAIN chain :
                  LET syms == chain[i].syms
                  IN  /\ syms /= <<>> /\ hash(chain[i].name) = b
                      /\ \A j \in 1 .. Len(syms) - 1 :
                            /\ syms[j].level > syms[j + 1].level
                            /\ stale(syms[j + 1]) => stale(syms[j])
                      /\ t = "Labels" => Len(syms) = 1 /\ ~stale(Head(syms))

(* Both at once, whatever the order of declarations, lookups and scopes.   *)
TablesAreScopes == ImplementsScoping /\ []ChainsSound
=============================================================================
