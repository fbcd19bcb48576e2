------------------------ MODULE EntryProgram_proofs ------------------------
(***************************************************************************)
(* Proofs about the program that runs first.  Each side keeps to what it   *)
(* resolved from the tree (EntryInv); where one PROGRAM-ID of the          *)
(* directory the oracle compiles bears the requested name, and no two      *)
(* programs of the tree differ in dashes and case only, there is one       *)
(* program either side can mean.                                           *)
(***************************************************************************)
EXTENDS EntryProgram, WellFoundedInduction, TLAPS

-----------------------------------------------------------------------------
(* Positions of a tree.                                                    *)

(* A position is a number, and never the number that stands for no module. *)
LEMMA TreePositions ==
  ASSUME NEW t \in SourceTrees
  PROVE  /\ Len(t) \in Nat
         /\ DOMAIN t = 1..Len(t)
         /\ DOMAIN t \subseteq Nat \ {NoModule}
<1>1. t \in Seq({t[i] : i \in DOMAIN t}) BY EntryAssumption
<1> QED BY <1>1 DEF NoModule

(* One position is the first and the last of itself. *)
LEMMA OnlyPosition ==
  ASSUME NEW i \in Nat
  PROVE  First({i}) = i /\ Latest({i}) = i /\ Single({i})
<1>1. i <= i OBVIOUS
<1> QED BY <1>1 DEF First, Latest, Single

(* A nonempty set of numbers has a least one. *)
LEMMA LeastNumber ==
  ASSUME NEW S \in SUBSET Nat, S # {}
  PROVE  \E n \in S : \A m \in S : n <= m
<1>1. PICK n \in S : \A m \in S : <<m, n>> \notin OpToRel(<, Nat)
  BY NatLessThanWellFounded, WFMin
<1>2. \A m \in S : ~(m < n) BY <1>1 DEF OpToRel
<1> QED BY <1>2

(* Of some positions of a tree there is a last one. *)
LEMMA LastPosition ==
  ASSUME NEW t \in SourceTrees, NEW S \in SUBSET DOMAIN t, S # {}
  PROVE  Latest(S) \in S
<1> DEFINE far == {Len(t) - i : i \in S}
<1>1. far \in SUBSET Nat /\ S \subseteq 1..Len(t) /\ Len(t) \in Nat
  BY TreePositions
<1>2. \E m \in far : \A k \in far : m <= k
  <2>1. far # {} OBVIOUS
  <2> HIDE DEF far
  <2> QED BY <1>1, <2>1, LeastNumber
<1>3. PICK i \in S : \A k \in far : Len(t) - i <= k BY <1>2
<1>4. \A j \in S : j <= i
  <2>1. \A j \in S : /\ Len(t) - i <= Len(t) - j
                     /\ i \in Nat /\ j \in Nat
    BY <1>1, <1>3
  <2> QED BY <1>1, <2>1
<1> QED BY <1>4 DEF Latest

(* The same for the first. *)
LEMMA FirstPosition ==
  ASSUME NEW t \in SourceTrees, NEW S \in SUBSET DOMAIN t, S # {}
  PROVE  First(S) \in S
<1>1. S \in SUBSET Nat BY TreePositions
<1>2. PICK i \in S : \A j \in S : i <= j BY <1>1, LeastNumber
<1> QED BY <1>2 DEF First

-----------------------------------------------------------------------------
(* Names.                                                                  *)

(* Capitals leave the key of a name alone. *)
LEMMA CapitalsKeepTheKey ==
  ASSUME NEW a, NEW b, upper(a) = upper(b)
  PROVE  _normalise_service_key(a) = _normalise_service_key(b)
<1>1. \A n : _normalise_service_key(upper(n)) = _normalise_service_key(n)
  BY DEF upper, _normalise_service_key
<1> QED BY <1>1

(* What is requested is declared or the PROGRAM-ID of a program: no name at *)
(* all, or one that has capitals.                                          *)
LEMMA RequestedHasCapitals ==
  ASSUME NEW t \in SourceTrees, NEW d \in Declarations,
         upper(_resolve_entry_program(t, d)) = NoName
  PROVE  _resolve_entry_program(t, d) = NoName
<1> DEFINE called == {_normalise_service_key(n) : n \in call_dependencies(t)}
           roots == {i \in cobol_programs(t) :
                       _normalise_service_key(t[i].id) \notin called}
<1>1. /\ Named(t, d) \subseteq DOMAIN t
      /\ roots \subseteq DOMAIN t
  BY DEF Named, cobol_programs
<1>2. \A i \in DOMAIN t : upper(t[i].id) = NoName => t[i].id = NoName
  BY EntryAssumption
<1>3. CASE Named(t, d) # {}
  <2>1. Latest(Named(t, d)) \in DOMAIN t BY <1>1, <1>3, LastPosition
  <2> QED BY <1>2, <1>3, <2>1 DEF _resolve_entry_program
<1>4. CASE Named(t, d) = {} /\ Single(roots)
  <2>1. roots # {} BY <1>4 DEF Single
  <2>2. First(roots) \in DOMAIN t BY <1>1, <2>1, FirstPosition
  <2>3. _resolve_entry_program(t, d) = t[First(roots)].id
    BY <1>4 DEF _resolve_entry_program
  <2> QED BY <1>2, <2>2, <2>3
<1>5. CASE Named(t, d) = {} /\ ~Single(roots)
  <2>1. _resolve_entry_program(t, d) = d BY <1>5 DEF _resolve_entry_program
  <2> QED BY <2>1, EntryAssumption
<1> QED BY <1>3, <1>4, <1>5

(* A module whose PROGRAM-ID is the requested name in capitals is a program *)
(* of that key.                                                            *)
LEMMA NamedByItsId ==
  ASSUME NEW t \in SourceTrees, NEW d \in Declarations,
         NEW i \in DOMAIN t, IsModule(t[i]),
         _resolve_entry_program(t, d) # NoName,
         upper(t[i].id) = upper(_resolve_entry_program(t, d))
  PROVE  i \in Named(t, _resolve_entry_program(t, d))
<1> DEFINE n == _resolve_entry_program(t, d)
<1>1. t[i].id # NoName
  BY RequestedHasCapitals, EntryAssumption
<1>2. _normalise_service_key(t[i].id) = _normalise_service_key(n)
  BY CapitalsKeepTheKey
<1>3. i \in cobol_programs(t) BY <1>1 DEF cobol_programs, IsModule
<1> QED BY <1>2, <1>3 DEF Named

-----------------------------------------------------------------------------
(* What each side does with a name that one program has.                   *)

(* No two programs of a tree have one key. *)
Unambiguous(t) ==
  \A i, j \in cobol_programs(t) :
    _normalise_service_key(t[i].id) = _normalise_service_key(t[j].id) => i = j

(* The generated application, where it is generated, enters the program of *)
(* that name and exits with its status.                                    *)
LEMMA ApplicationEnters ==
  ASSUME NEW t \in SourceTrees, NEW d \in Declarations, NEW r,
         NEW i \in Named(t, _resolve_entry_program(t, d)), Unambiguous(t),
         assemble(r, t, _resolve_entry_program(t, d)).generated
  PROVE  /\ assemble(r, t, _resolve_entry_program(t, d)).active = {i}
         /\ assemble(r, t, _resolve_entry_program(t, d)).status = t[i].id
<1> DEFINE n == _resolve_entry_program(t, d)
           made == {j \in cobol_programs(t) : t[j].id = n}
<1>1. i \in cobol_programs(t) /\ n # NoName
      /\ _normalise_service_key(t[i].id) = _normalise_service_key(n)
  BY DEF Named
<1>2. Named(t, n) = {i} BY <1>1 DEF Named, Unambiguous
<1>3. i \in Nat BY <1>1, TreePositions DEF cobol_programs
<1>4. First({i}) = i /\ Latest({i}) = i /\ Single({i}) BY <1>3, OnlyPosition
<1>5. CASE r = "spring_boot"
  <2>1. _derive_entry_point(t, n) = {i} BY <1>2, <1>4 DEF _derive_entry_point
  <2>2. _generate_entry_point(t, n)
          = [generated |-> TRUE, active |-> {i}, status |-> t[i].id]
    BY <1>4, <2>1 DEF _generate_entry_point
  <2> QED BY <1>5, <2>2 DEF assemble
<1>6. CASE r # "spring_boot"
  <2>1. _assemble_main_class(t, n)
          = [generated |-> made # {},
             active |-> IF made = {} THEN {} ELSE {Latest(made)},
             status |-> n]
    BY <1>1 DEF _assemble_main_class
  <2>2. made # {}
    <3>1. _assemble_main_class(t, n).generated BY <1>6 DEF assemble
    <3>2. _assemble_main_class(t, n).generated = (made # {}) BY <2>1
    <3> QED BY <3>1, <3>2
  <2>3. made = {i} /\ t[i].id = n
    <3>1. \A j \in made : j = i BY <1>1 DEF Unambiguous
    <3> QED BY <2>2, <3>1
  <2>4. _assemble_main_class(t, n).active = {i} BY <1>4, <2>1, <2>3
  <2>5. _assemble_main_class(t, n).status = t[i].id BY <2>1, <2>3
  <2> QED BY <1>6, <2>4, <2>5 DEF assemble
<1> QED BY <1>5, <1>6

(* The oracle compiles one directory, when it finds a module. *)
LEMMA DirectoryOfOracle ==
  ASSUME NEW t, NEW n, Single(module_directory(t))
  PROVE  \E dir : /\ module_directory(t) = {dir}
                  /\ UNION {modules_of(t, d) : d \in module_directory(t)}
                       = modules_of(t, dir)
                  /\ n # NoName => select_modules(t, n)
                                    = named_module(t, modules_of(t, dir), upper(n))
<1>1. PICK dir \in module_directory(t) : module_directory(t) = {dir} BY DEF Single
<1>2. (CHOOSE d \in module_directory(t) : TRUE) = dir BY <1>1
<1>3. UNION {modules_of(t, d) : d \in module_directory(t)} = modules_of(t, dir)
  BY <1>1
<1>4. n # NoName => select_modules(t, n) = named_module(t, modules_of(t, dir), upper(n))
  BY <1>2 DEF select_modules
<1> QED BY <1>1, <1>3, <1>4

(* A name that is the only PROGRAM-ID of its kind: the oracle finds a file of *)
(* that PROGRAM-ID, or goes by file name.                                  *)
LEMMA OracleGoesById ==
  ASSUME NEW t \in SourceTrees, NEW n, NEW dir,
         NEW k, k = named_module(t, modules_of(t, dir), upper(n)), k # NoModule,
         ~(/\ \E i \in modules_of(t, dir) : upper(t[i].stem) = upper(n)
           /\ \A i \in modules_of(t, dir) : upper(t[i].id) # upper(n))
  PROVE  k \in modules_of(t, dir) /\ upper(t[k].id) = upper(n)
<1> DEFINE modules == modules_of(t, dir)
           by_id == {i \in modules : upper(t[i].id) = upper(n)}
           by_file == {i \in modules : upper(t[i].stem) = upper(n)}
<1>1. k = IF by_id = {} THEN FirstModule(t, by_file) ELSE Sole(by_id)
  BY DEF named_module
<1>2. by_id # {}
  <2> SUFFICES ASSUME by_id = {} PROVE FALSE OBVIOUS
  <2>1. by_file = {} OBVIOUS
  <2>2. k = FirstModule(t, {}) BY <1>1, <2>1
  <2> QED BY <2>2 DEF FirstModule
<1>3. k = First(by_id) BY <1>1, <1>2 DEF Sole
<1>4. by_id \subseteq DOMAIN t BY DEF modules_of
<1>5. k \in by_id
  <2> HIDE DEF by_id
  <2> QED BY <1>2, <1>3, <1>4, FirstPosition
<1> QED BY <1>5
-----------------------------------------------------------------------------
(* Both sides, from the start of a run to its end.                         *)

(* What generation gives for the run. *)
Generation == assemble(runtime, sources, Requested)

(* Each side is what it resolved from the tree of the run, which no step   *)
(* changes; and a run refused was refused by one of the two.               *)
EntryInv ==
  /\ sources \in SourceTrees /\ declared \in Declarations
  /\ stage \in {"generate", "validate", "compared", "refused"}
  /\ stage \in {"validate", "compared"} =>
       /\ Generation.generated
       /\ entered = Generation.active
       /\ status = Generation.status
  /\ stage = "compared" =>
       module = select_modules(sources, Requested) /\ module # NoModule
  /\ stage = "refused" =>
       \/ ~Generation.generated
       \/ select_modules(sources, Requested) = NoModule

(* A run starts before both. *)
LEMMA InitEntry == EntryInit => EntryInv
BY DEF EntryInit, NothingEntered, EntryInv

(* GenerateEntry and SelectOracleEntry each do their side. *)
LEMMA NextEntry == EntryInv /\ [EntryNext]_entryVars => EntryInv'
<1> SUFFICES ASSUME EntryInv, [EntryNext]_entryVars PROVE EntryInv'
  OBVIOUS
<1>1. CASE GenerateEntry
  <2>1. sources' = sources /\ declared' = declared /\ runtime' = runtime
    BY <1>1 DEF GenerateEntry
  <2>2. Generation' = Generation /\ Requested' = Requested
    BY <2>1 DEF Generation, Requested
  <2>3. \/ /\ Generation.generated /\ stage' = "validate"
           /\ entered' = Generation.active /\ status' = Generation.status
        \/ ~Generation.generated /\ stage' = "refused"
    BY <1>1 DEF GenerateEntry, Generation, Requested
  <2> QED BY <2>1, <2>2, <2>3 DEF EntryInv
<1>2. CASE SelectOracleEntry
  <2>1. /\ sources' = sources /\ declared' = declared /\ runtime' = runtime
        /\ entered' = entered /\ status' = status /\ stage = "validate"
    BY <1>2 DEF SelectOracleEntry
  <2>2. Generation' = Generation /\ Requested' = Requested
    BY <2>1 DEF Generation, Requested
  <2>3. select_modules(sources, Requested)' = select_modules(sources, Requested)
    BY <2>1, <2>2 
  <2>4. \/ /\ stage' = "compared" /\ module' = select_modules(sources, Requested)
           /\ select_modules(sources, Requested) # NoModule
        \/ stage' = "refused" /\ select_modules(sources, Requested) = NoModule
    BY <1>2 DEF SelectOracleEntry, Requested
  <2> QED BY <2>1, <2>2, <2>3, <2>4 DEF EntryInv
<1>3. CASE UNCHANGED entryVars
  BY <1>3 DEF entryVars, EntryInv, Generation, Requested
<1> QED BY <1>1, <1>2, <1>3 DEF EntryNext

-----------------------------------------------------------------------------
(* The property.                                                           *)

(* The first half: when both sides run, they enter the same program. *)
LEMMA ComparedIsTheSame ==
  ASSUME EntryInv, stage = "compared", ~Undeclared, ~ByFileName, ~Ambiguous
  PROVE  entered = {module} /\ status = sources[module].id
<1>1. sources \in SourceTrees /\ declared \in Declarations /\ Requested # NoName
  BY DEF EntryInv, Undeclared
<1>2. Unambiguous(sources) BY DEF Ambiguous, Unambiguous
<1>3. module = select_modules(sources, Requested) /\ module # NoModule BY DEF EntryInv
<1>4. Single(module_directory(sources)) BY <1>3 DEF select_modules
<1>5. PICK dir :
        /\ UNION {modules_of(sources, d) : d \in module_directory(sources)}
             = modules_of(sources, dir)
        /\ module = named_module(sources, modules_of(sources, dir), upper(Requested))
  BY <1>1, <1>3, <1>4, DirectoryOfOracle
<1>6. ~(/\ \E i \in modules_of(sources, dir) : upper(sources[i].stem) = upper(Requested)
        /\ \A i \in modules_of(sources, dir) : upper(sources[i].id) # upper(Requested))
  BY <1>5 DEF ByFileName
<1>7. /\ module \in modules_of(sources, dir)
      /\ upper(sources[module].id) = upper(Requested)
  BY <1>1, <1>3, <1>5, <1>6, OracleGoesById
<1>8. module \in Named(sources, Requested)
  BY <1>1, <1>7, NamedByItsId DEF modules_of, Requested
<1>9. /\ Generation.generated /\ entered = Generation.active
      /\ status = Generation.status
  BY DEF EntryInv
<1> QED BY <1>1, <1>2, <1>8, <1>9, ApplicationEnters DEF Generation, Requested

(* The second: a tree of one directory with a program of the requested name *)
(* is refused by neither side.                                             *)
LEMMA KnownIsNotRefused ==
  ASSUME EntryInv, ~Ambiguous,
         NEW i \in cobol_programs(sources), sources[i].id = Requested,
         \A j, k \in DOMAIN sources : /\ sources[j].dir = sources[k].dir
                                      /\ sources[j].suffix # ""
  PROVE  stage # "refused"
<1> DEFINE modules == {j \in DOMAIN sources : IsModule(sources[j])}
           programs == {j \in modules : sources[j].id # NoName}
           here == modules_of(sources, sources[i].dir)
           by_id == {j \in here : upper(sources[j].id) = upper(Requested)}
<1>1. sources \in SourceTrees /\ declared \in Declarations
  BY DEF EntryInv
<1>2. i \in DOMAIN sources /\ Requested # NoName /\ IsModule(sources[i])
  BY DEF cobol_programs, IsModule
<1>3. module_directory(sources) = {sources[i].dir}
  <2>1. i \in programs /\ \A j \in modules : sources[j].dir = sources[i].dir
    BY <1>2
  <2>2. module_directory(sources)
          = IF (\E j \in modules : sources[j].dir = "root") \/ programs = {}
            THEN {"root"} ELSE {sources[j].dir : j \in programs}
    BY DEF module_directory
  <2>3. {sources[j].dir : j \in programs} = {sources[i].dir} BY <2>1
  <2> HIDE DEF modules, programs
  <2> QED BY <2>1, <2>2, <2>3
<1>4. Single(module_directory(sources)) BY <1>3 DEF Single
<1>5. select_modules(sources, Requested)
        = named_module(sources, here, upper(Requested))
  BY <1>2, <1>3, <1>4, DirectoryOfOracle
<1>6. by_id = {i}
  <2>1. i \in by_id BY <1>2 DEF modules_of
  <2>2. ASSUME NEW j \in by_id PROVE j = i
    <3>1. j \in DOMAIN sources /\ IsModule(sources[j]) BY DEF modules_of
    <3>2. j \in Named(sources, Requested)
      BY <1>1, <1>2, <3>1, NamedByItsId DEF Requested
    <3>3. j \in cobol_programs(sources)
            /\ _normalise_service_key(sources[j].id)
                 = _normalise_service_key(sources[i].id)
      BY <3>2 DEF Named
    <3> QED BY <3>3 DEF Ambiguous
  <2> QED BY <2>1, <2>2
<1>7. i \in Nat /\ i # NoModule BY <1>1, <1>2, TreePositions
<1>8. Sole({i}) = i BY <1>7, OnlyPosition DEF Sole
<1>9. select_modules(sources, Requested) = i
  <2>1. named_module(sources, here, upper(Requested)) = Sole(by_id)
    BY <1>6 DEF named_module
  <2> HIDE DEF by_id, here
  <2> QED BY <1>5, <1>6, <1>8, <2>1
<1>10. Generation.generated
  <2>1. CASE runtime = "spring_boot"
    <3>1. _generate_entry_point(sources, Requested).generated
      BY DEF _generate_entry_point
    <3> QED BY <2>1, <3>1 DEF Generation, assemble
  <2>2. CASE runtime # "spring_boot"
    <3> DEFINE made == {j \in cobol_programs(sources) : sources[j].id = Requested}
    <3>1. made # {} OBVIOUS
    <3>2. _assemble_main_class(sources, Requested).generated = (made # {})
      BY <1>2 DEF _assemble_main_class
    <3>3. _assemble_main_class(sources, Requested).generated BY <3>1, <3>2
    <3> QED BY <2>2, <3>3 DEF Generation, assemble
  <2> QED BY <2>1, <2>2
<1> QED BY <1>7, <1>9, <1>10 DEF EntryInv

(* Whatever the tree, the declaration and the runtime: where generation and *)
(* the oracle both run, the requested name is one program's and no file    *)
(* name is taken for it, the generated application enters the one file the *)
(* oracle enters and exits with its program's status; and a tree of one    *)
(* directory that has a program of that name is refused by neither.        *)
THEOREM SameProgram == EntrySpec => []SameProgramEnters
<1>1. EntrySpec => []EntryInv BY InitEntry, NextEntry, PTL DEF EntrySpec
<1>2. EntryInv => SameProgramEnters
  <2>1. EntryInv /\ stage = "compared" /\ ~Undeclared /\ ~ByFileName /\ ~Ambiguous
          => entered = {module} /\ status = sources[module].id
    BY ComparedIsTheSame
  <2>2. ASSUME EntryInv, ~Ambiguous, stage = "refused",
               \E i \in cobol_programs(sources) : sources[i].id = Requested
        PROVE  \E i, j \in DOMAIN sources : \/ sources[i].dir # sources[j].dir
                                            \/ sources[i].suffix = ""
    <3>1. PICK i \in cobol_programs(sources) : sources[i].id = Requested BY <2>2
    <3> QED BY <2>2, <3>1, KnownIsNotRefused
  <2> QED BY <2>1, <2>2 DEF SameProgramEnters
<1> QED BY <1>1, <1>2, PTL
=============================================================================
