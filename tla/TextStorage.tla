---------------------------- MODULE TextStorage ----------------------------
(***************************************************************************)
(* Character data: COBOL's one storage, which groups and REDEFINES look at *)
(* in several ways, against the separate Java fields it is lowered to.     *)
(* Statements that move characters are executed on both, one after the     *)
(* other.                                                                  *)
(***************************************************************************)
EXTENDS Integers, Sequences, SequencesExt, FiniteSetsExt

CONSTANTS
  Layouts,        \* DATA DIVISIONs: items, groups, what redefines what
  Texts,          \* the statements tried on each
  Input,          \* the lines of standard input
  MaxTexts        \* bound on the statements executed

VARIABLES
  layout,    \* the program's DATA DIVISION
  leaves,    \* for each group, what takes up its storage, in order
  inside,    \* for each group, the items and groups subordinate to it
  plan,      \* the views of its overlays: name, offset and base
  cobol,     \* what its storage holds
  fields,    \* what the Java fields hold, a number as its digits
  bytes,     \* <BASE>$BYTES: the shared bytes of each overlay
  accepted,     \* lines read from standard input
  executed,  \* statements executed
  differs,   \* ghost: was a statement executed that is known to differ?
  outcome    \* "running", or why the Java does not run

declared == <<layout, leaves, inside, plan>>
textVars == <<declared, cobol, fields, bytes, accepted, executed, differs, outcome>>

-----------------------------------------------------------------------------
(* Characters.                                                             *)
Digits == <<"0", "1", "2", "3", "4", "5", "6", "7", "8", "9">>
AllDigits(s) == \A i \in DOMAIN s : s[i] \in ToSet(Digits)
Filled(c, w) == [i \in 1..w |-> c]
LeftJustified(s, w) == [i \in 1..w |-> IF i <= Len(s) THEN s[i] ELSE " "]
RightJustified(s, w) ==
  [i \in 1..w |-> IF Len(s) - w + i >= 1 THEN s[Len(s) - w + i] ELSE "0"]
figurative_to_width(s, w) == [i \in 1..w |-> s[((i - 1) % Len(s)) + 1]]
Cut(s, at, w) == SubSeq(s, at + 1, at + w)
Over(s, at, t) ==
  [i \in DOMAIN s |-> IF at < i /\ i <= at + Len(t) THEN t[i - at] ELSE s[i]]
NumberOf(s) ==
  FoldLeft(LAMBDA n, c : 10 * n + SelectInSeq(Digits, LAMBDA d : d = c) - 1, 0, s)
DigitsOf(n, w) ==
  RightJustified([i \in 1..2 |-> Digits[((IF i = 1 THEN n \div 10 ELSE n) % 10) + 1]], w)

-----------------------------------------------------------------------------
(* A DATA DIVISION: item: name -> [num, signed, width, value], group: name *)
(* -> its members in order, redefines: name -> base.  A member without a   *)
(* name is a FILLER.                                                       *)
Filler(g, n) == <<g, n>>

\* The members that take up storage, in order: what redefines takes up none.
Leaves(d) ==
  LET below[g \in DOMAIN d.group] ==
        FlattenSeq([n \in DOMAIN d.group[g] |->
          LET m == d.group[g][n]
          IN IF m.name = "" THEN <<[cell |-> Filler(g, n), text |-> m.text, width |-> Len(m.text)]>>
             ELSE IF m.name \in DOMAIN d.redefines THEN <<>>
             ELSE IF m.name \in DOMAIN d.group THEN below[m.name]
             ELSE <<[cell |-> <<m.name>>, text |-> <<>>, width |-> d.item[m.name].width]>>])
  IN below
Subordinates(d) ==
  LET below[g \in DOMAIN d.group] ==
        UNION {LET m == d.group[g][n].name
               IN IF m \in DOMAIN d.group THEN {m} \cup below[m] ELSE {m} \ {""} :
               n \in DOMAIN d.group[g]}
  IN below
OffsetIn(ls, n) == FoldLeft(LAMBDA k, m : k + m.width, 0, SubSeq(ls, 1, n - 1))
Spans(ls) == OffsetIn(ls, Len(ls) + 1)

_initial_bytes(i) ==
  CASE i.num -> RightJustified(i.value.text, i.width)
    [] i.value.kind = "figurative" -> figurative_to_width(i.value.text, i.width)
    [] OTHER -> LeftJustified(i.value.text, i.width)

\* What redefines base b: an item, or the items of a group where they lie.
_group_members(d, b) ==
  UNION {IF x \in DOMAIN d.group
         THEN LET ls == Leaves(d)[x]
              IN {[name |-> ls[n].cell[1], at |-> OffsetIn(ls, n)] :
                    n \in {k \in DOMAIN ls : Len(ls[k].cell) = 1}}
         ELSE {[name |-> x, at |-> 0]} :
         x \in {y \in DOMAIN d.redefines : d.redefines[y] = b}}

_is_certified_member(d, x) == x \in DOMAIN d.item /\ ~d.item[x].signed

\* Why an overlay is not certified: every program with one is refused.
Uncertified(d, b) ==
  \/ b \in DOMAIN d.redefines \/ ~_is_certified_member(d, b)
  \/ \E x \in DOMAIN d.redefines : d.redefines[x] = b /\ x \in DOMAIN d.group
       /\ \E n \in DOMAIN d.group[x] : d.group[x][n].name \in DOMAIN d.group
  \/ \E v \in _group_members(d, b) :
       \/ ~_is_certified_member(d, v.name)
       \/ v.at + d.item[v.name].width > d.item[b].width
       \/ d.item[v.name].num
          /\ ~AllDigits(Cut(_initial_bytes(d.item[b]), v.at, d.item[v.name].width))

\* The views of every certified overlay, the base among them.
build_redefines_plan(d) ==
  UNION {{[name |-> v.name, at |-> v.at, base |-> b] :
            v \in _group_members(d, b) \cup {[name |-> b, at |-> 0]}} :
         b \in {c \in Range(d.redefines) : ~Uncertified(d, c)}}

Data == Layouts[layout]
WidthOf(x) == Data.item[x].width
IsNumber(x) == x \in DOMAIN Data.item /\ Data.item[x].num
IsText(x) == x \in DOMAIN Data.item /\ ~Data.item[x].num
IsGroup(x) == x \in DOMAIN Data.group
Overlaid(x) == \E v \in plan : v.name = x
View(x) == CHOOSE v \in plan : v.name = x

\* A group can be read as its leaves unless one takes part in an overlay, and
\* written if every leaf is a named text.
HasLayout(g) ==
  \A x \in {g} \cup inside[g] : x \notin DOMAIN Data.redefines \cup Range(Data.redefines)
LeafNames(g) == {m.cell[1] : m \in {k \in ToSet(leaves[g]) : Len(k.cell) = 1}}
Writable(g) == \A m \in ToSet(leaves[g]) : Len(m.cell) = 1 /\ IsText(m.cell[1])

-----------------------------------------------------------------------------
(* What COBOL's storage holds.                                             *)
CobolItem(mem, x) ==
  IF Overlaid(x) THEN Cut(mem[<<View(x).base>>], View(x).at, WidthOf(x)) ELSE mem[<<x>>]
CobolText(mem, x) ==
  IF IsGroup(x)
  THEN FlattenSeq([n \in DOMAIN leaves[x] |->
         LET c == leaves[x][n].cell IN IF Len(c) = 2 THEN mem[c] ELSE CobolItem(mem, c[1])])
  ELSE CobolItem(mem, x)
CobolStore(mem, x, text) ==
  IF Overlaid(x)
  THEN [mem EXCEPT ![<<View(x).base>>] = Over(@, View(x).at, text)]
  ELSE [mem EXCEPT ![<<x>>] = text]

CobolSent(mem, s) == IF s.kind = "data" THEN CobolText(mem, s.name) ELSE s.text
Fits(s, text, w) == IF s.kind = "figurative" THEN figurative_to_width(text, w) ELSE LeftJustified(text, w)

CobolMove(mem, s, x) ==
  LET text == CobolSent(mem, s)
      ls == leaves[x]
      moved == Fits(s, text, Spans(ls))
  IN IF IsGroup(x)
     THEN FoldLeft(LAMBDA m, n :
            LET part == Cut(moved, OffsetIn(ls, n), ls[n].width)
            IN IF Len(ls[n].cell) = 2 THEN [m EXCEPT ![ls[n].cell] = part]
               ELSE CobolStore(m, ls[n].cell[1], part), mem, [n \in DOMAIN ls |-> n])
     ELSE CobolStore(mem, x, IF IsNumber(x) THEN RightJustified(text, WidthOf(x))
                             ELSE Fits(s, text, WidthOf(x)))

\* STRING: each sending text up to its delimiter, character by character into
\* the receiver from the pointer on.
Delimited(text, by) ==
  IF by # "SIZE" /\ by \in ToSet(text) THEN SubSeq(text, 1, SelectInSeq(text, LAMBDA c : c = by) - 1)
  ELSE text
\* Phrases without a delimiter of their own share the next one.
DelimiterOf(phrases, n) ==
  LET m == SelectInSubSeq(phrases, n, Len(phrases), LAMBDA p : p.by # "")
  IN IF m = 0 THEN "SIZE" ELSE phrases[m].by
CobolString(mem, s) ==
  LET sent == FlattenSeq([n \in DOMAIN s.phrases |->
                Delimited(CobolSent(mem, s.phrases[n].from), DelimiterOf(s.phrases, n))])
      start == IF s.pointer = "" THEN 1 ELSE NumberOf(CobolItem(mem, s.pointer))
      put == FoldLeft(LAMBDA r, c :
               IF r.at \in 1..WidthOf(s.to)
               THEN [at |-> r.at + 1, text |-> [r.text EXCEPT ![r.at] = c]] ELSE r,
               [at |-> start, text |-> CobolItem(mem, s.to)], sent)
      stored == CobolStore(mem, s.to, put.text)
  IN IF s.pointer = "" THEN stored
     ELSE CobolStore(stored, s.pointer, DigitsOf(put.at, WidthOf(s.pointer)))

\* UNSTRING: each receiver gets the characters up to the next delimiter, until
\* the source is used up.
CobolUnstring(mem, s) ==
  LET text == CobolSent(mem, s.from)
      CutAt(at) == LET i == SelectInSubSeq(text, at, Len(text), LAMBDA c : c = s.by)
                   IN IF i = 0 THEN Len(text) + 1 ELSE i
  IN FoldLeft(LAMBDA r, x :
       IF r.at > Len(text) THEN r
       ELSE [at |-> CutAt(r.at) + 1,
             mem |-> CobolStore(r.mem, x, LeftJustified(SubSeq(text, r.at, CutAt(r.at) - 1), WidthOf(x)))],
       [at |-> 1, mem |-> mem], s.into).mem

Initialized(x) == Filled(IF IsNumber(x) THEN "0" ELSE " ", WidthOf(x))
CobolInitialize(mem, x) ==
  IF IsGroup(x)
  THEN FoldLeft(LAMBDA m, c : IF Len(c.cell) = 2 THEN m ELSE CobolStore(m, c.cell[1], Initialized(c.cell[1])),
                mem, leaves[x])
  ELSE CobolStore(mem, x, Initialized(x))

Line == IF accepted < Len(Input) THEN Input[accepted + 1] ELSE <<>>

\* ACCEPT of a number: the first digits before a point, right justified, unless
\* a character among them is none.
CobolAccepted(x) ==
  LET line == SubSeq(Line, 1, Min({WidthOf(x), Len(Line)}))
      start == SelectInSeq(line, LAMBDA c : c # " ")
      signed == start # 0 /\ line[start] \in {"+", "-"}
      body == IF start = 0 THEN <<>> ELSE SubSeq(line, IF signed THEN start + 1 ELSE start, Len(line))
      point == SelectInSeq(body, LAMBDA c : c = ".")
      whole == IF point = 0 THEN body ELSE SubSeq(body, 1, point - 1)
      isDigit(c) == c \in ToSet(Digits)
      last == SelectLastInSeq(whole, isDigit)
  IN IF ~IsNumber(x) THEN LeftJustified(Line, WidthOf(x))
     ELSE IF \E i \in 1..(last - 1) : ~isDigit(whole[i]) /\ whole[i] \notin {" ", ","}
          THEN Filled("0", WidthOf(x))
          ELSE RightJustified(SelectSeq(whole, isDigit), WidthOf(x))

CobolExecute(s) ==
  CASE s.verb = "MOVE" -> FoldLeft(LAMBDA m, x : CobolMove(m, s.from, x), cobol, s.into)
    [] s.verb = "STRING" -> CobolString(cobol, s)
    [] s.verb = "UNSTRING" -> CobolUnstring(cobol, s)
    [] s.verb = "INITIALIZE" -> CobolInitialize(cobol, s.to)
    [] s.verb = "ACCEPT" -> CobolStore(cobol, s.to, CobolAccepted(s.to))
    [] s.verb = "SET" -> CobolMove(cobol, s.from, s.to)

-----------------------------------------------------------------------------
(* Statements the lane refuses, and those javac does.                      *)
group_move_problem(s, x) ==
  IF IsGroup(x)
  THEN \/ ~HasLayout(x) \/ ~Writable(x) \/ s.kind = "number"
       \/ /\ s.kind = "data" /\ IsGroup(s.name)
          /\ ~HasLayout(s.name) \/ LeafNames(s.name) \cap LeafNames(x) # {}
       \/ s.kind = "data" /\ ~IsGroup(s.name) /\ (IsNumber(s.name) \/ s.name \in LeafNames(x))
  ELSE /\ s.kind = "data" /\ IsGroup(s.name)
       /\ ~HasLayout(s.name) \/ ~IsText(x) \/ x \in LeafNames(s.name)

Overlap(v, o) ==
  v.base = o.base /\ v.at < o.at + WidthOf(o.name) /\ o.at < v.at + WidthOf(v.name)

\* A constant that puts other bytes than digits under a view that is a number.
_overlay_literal_problem(s, x) ==
  /\ Overlaid(x) /\ IsText(x) /\ s.kind \in {"literal", "figurative"}
  /\ LET v == View(x)
         written == Fits(s, s.text, WidthOf(x))
     IN \E o \in plan : /\ IsNumber(o.name) /\ Overlap(v, o)
                        /\ ~AllDigits([i \in {k \in 1..WidthOf(x) : v.at + k > o.at /\ v.at + k <= o.at + WidthOf(o.name)}
                                         |-> written[i]])

\* Only MOVE keeps overlays in step, so no other statement may name a member.
_validate_redefines(s) ==
  CASE s.verb = "MOVE" -> \E x \in ToSet(s.into) : ~IsGroup(x) /\ _overlay_literal_problem(s.from, x)
    [] s.verb = "STRING" -> Overlaid(s.to) \/ Overlaid(s.pointer)
    [] s.verb = "UNSTRING" -> \E x \in ToSet(s.into) : Overlaid(x)
    [] OTHER -> Overlaid(s.to)

Named(s) == IF s.kind = "data" THEN {s.name} ELSE {}
_validate_group_references(s) ==
  CASE s.verb = "MOVE" -> \E x \in ToSet(s.into) : group_move_problem(s.from, x)
    [] s.verb = "STRING" -> \E p \in ToSet(s.phrases) : \E x \in Named(p.from) : IsGroup(x)
    [] s.verb = "UNSTRING" -> \E x \in Named(s.from) \cup ToSet(s.into) : IsGroup(x)
    [] OTHER -> s.verb = "ACCEPT" /\ IsGroup(s.to)

\* Clauses without a mapping; "POINTER", its WITH left out, is not among them.
UnsupportedClause(s) ==
  \/ s.verb = "STRING" /\ s.clause = "ON OVERFLOW"
  \/ s.verb = "UNSTRING" /\ (s.clause \in {"WITH POINTER", "TALLYING IN"} \/ s.by = "")
RefusedText(s) == _validate_redefines(s) \/ _validate_group_references(s) \/ UnsupportedClause(s)

NotJava(s) ==
  \/ s.verb = "STRING" /\ \E p \in ToSet(s.phrases) : p.from.kind = "number"
  \/ s.verb = "UNSTRING" /\ \E x \in Named(s.from) \cup ToSet(s.into) : IsNumber(x)

-----------------------------------------------------------------------------
(* What the Java does with its fields.                                     *)
GroupView(f, g) ==
  FlattenSeq([n \in DOMAIN leaves[g] |->
    LET m == leaves[g][n] IN IF Len(m.cell) = 2 THEN m.text ELSE f[m.cell[1]]])
JavaSent(f, s) ==
  IF s.kind # "data" THEN s.text ELSE IF IsGroup(s.name) THEN GroupView(f, s.name) ELSE f[s.name]

\* One assignment for each leaf of a group.
_group_move_statements(f, s, g) ==
  LET ls == leaves[g]
      moved == Fits(s, JavaSent(f, s), Spans(ls))
  IN [x \in DOMAIN f |->
        LET at == {n \in DOMAIN ls : ls[n].cell = <<x>>}
        IN IF at = {} THEN f[x] ELSE Cut(moved, OffsetIn(ls, Min(at)), WidthOf(x))]
JavaAssign(f, s, x) ==
  IF IsGroup(x) THEN _group_move_statements(f, s, x)
  ELSE [f EXCEPT ![x] = IF IsNumber(x) THEN RightJustified(JavaSent(f, s), WidthOf(x))
                        ELSE Fits(s, JavaSent(f, s), WidthOf(x))]

\* Mutant of Refreshed: only views that begin where the written one does.
Refreshed_same_start(v) == {o \in plan : o # v /\ o.base = v.base /\ o.at = v.at}

\* The views that share a byte with a view just written.
Refreshed(v) == {o \in plan : o # v /\ Overlap(v, o)}

\* The shared bytes take the view that was written, then the other views take
\* the bytes; a number stops the program unless they are digits.
_redefines_sync_statements(r, x) ==
  IF ~Overlaid(x) \/ ~r.runs THEN r
  ELSE LET v == View(x)
           shared == Over(r.bytes[v.base], v.at, r.fields[x])
           part(o) == Cut(shared, o.at, WidthOf(o.name))
       IN [bytes |-> [r.bytes EXCEPT ![v.base] = shared],
           runs |-> \A o \in Refreshed(v) : IsNumber(o.name) => AllDigits(part(o)),
           fields |-> [y \in DOMAIN r.fields |->
                         IF \E o \in Refreshed(v) : o.name = y THEN part(View(y)) ELSE r.fields[y]]]
JavaMove(s) ==
  FoldLeft(_redefines_sync_statements,
           [fields |-> FoldLeft(LAMBDA f, x : JavaAssign(f, s.from, x), fields, s.into),
            bytes |-> bytes, runs |-> TRUE], s.into)

Only(f) == [fields |-> f, bytes |-> bytes, runs |-> TRUE]

\* Each phrase up to its own delimiter; SIZE if it has none of its own.
_string_phrase_java(p) == Delimited(JavaSent(fields, p.from), IF p.by = "" THEN "SIZE" ELSE p.by)
_string_receiver_statements(s) ==
  LET built == FlattenSeq([n \in DOMAIN s.phrases |-> _string_phrase_java(s.phrases[n])])
      old == fields[s.to]
      width == WidthOf(s.to)
      pointer == IF s.pointer # "" /\ s.with THEN NumberOf(fields[s.pointer]) ELSE 1
      inRange == pointer \in 1..(width + 1)
      head == SubSeq(old, 1, Min({width, pointer - 1}))
      tail == SubSeq(old, Min({width, pointer - 1 + Len(built)}) + 1, width)
      assigned == [fields EXCEPT ![s.to] = IF inRange THEN SubSeq(head \o built \o tail, 1, width) ELSE @]
  IN IF s.pointer = "" \/ ~s.with THEN Only(assigned)
     ELSE Only([assigned EXCEPT ![s.pointer] =
                  IF inRange THEN DigitsOf(Min({pointer + Len(built), width + 1}), WidthOf(s.pointer)) ELSE @])

\* The source split at every delimiter, a piece for each receiver; spaces for
\* the receivers that are left.
Pieces(text, by) ==
  LET at == SetToSortSeq({0, Len(text) + 1} \cup {i \in DOMAIN text : text[i] = by}, <)
  IN [n \in 1..(Len(at) - 1) |-> SubSeq(text, at[n] + 1, at[n + 1] - 1)]
JavaUnstring(s) ==
  LET parts == Pieces(JavaSent(fields, s.from), s.by)
  IN Only(FoldLeft(LAMBDA f, i : [f EXCEPT ![s.into[i]] =
                     IF i <= Len(parts) THEN LeftJustified(parts[i], WidthOf(s.into[i]))
                     ELSE Filled(" ", WidthOf(s.into[i]))],
                   fields, [i \in DOMAIN s.into |-> i]))

\* A group is its subordinate items, those that redefine others included.
_initialize_item_assignments(g) == inside[g] \cap DOMAIN Data.item
JavaInitialize(x) ==
  LET items == IF IsGroup(x) THEN _initialize_item_assignments(x) ELSE {x}
  IN Only([y \in DOMAIN fields |-> IF y \in items THEN Initialized(y) ELSE fields[y]])

\* CobolStdin.digits for an integer.
digits(line, size) ==
  LET end == Min({Len(line), size})
      isDigit(c) == c \in ToSet(Digits)
      spaces == SelectInSubSeq(line, 1, end, LAMBDA c : c # " ")
      first == IF spaces = 0 THEN end + 1 ELSE spaces
      s1 == IF first <= end /\ line[first] \in {"+", "-"} THEN first + 1 ELSE first
      points == {i \in s1..end : line[i] = "."}
      count == Cardinality({i \in s1..end : isDigit(line[i]) /\ \A p \in points : i < p})
      r == FoldLeft(LAMBDA d, c :
             CASE d.bad \/ d.at > size -> d
               [] isDigit(c) -> [d EXCEPT !.at = @ + 1, !.dst[d.at] = c]
               [] c = "." -> [d EXCEPT !.points = @ + 1, !.bad = d.points > 0]
               [] OTHER -> [d EXCEPT !.bad = c \notin {" ", ","}],
             [at |-> size - count + 1, dst |-> Filled("0", size), points |-> 0, bad |-> FALSE],
             SubSeq(line, s1, end))
  IN IF r.bad THEN Filled("0", size) ELSE r.dst
JavaAccept(x) ==
  Only([fields EXCEPT ![x] = IF IsNumber(x) THEN digits(Line, WidthOf(x)) ELSE LeftJustified(Line, WidthOf(x))])

JavaExecute(s) ==
  CASE s.verb = "MOVE" -> JavaMove(s)
    [] s.verb = "STRING" -> _string_receiver_statements(s)
    [] s.verb = "UNSTRING" -> JavaUnstring(s)
    [] s.verb = "INITIALIZE" -> JavaInitialize(s.to)
    [] s.verb = "ACCEPT" -> JavaAccept(s.to)
    [] s.verb = "SET" -> Only(JavaAssign(fields, s.from, s.to))

-----------------------------------------------------------------------------
(* Statements the lane takes and reads otherwise than COBOL.               *)
SharesDelimiter(s) ==
  s.verb = "STRING" /\ \E n \in DOMAIN s.phrases : s.phrases[n].by = "" /\ DelimiterOf(s.phrases, n) # "SIZE"
PointerWithoutWith(s) ==
  \/ s.verb = "STRING" /\ s.pointer # "" /\ ~s.with
  \/ s.verb = "UNSTRING" /\ s.clause = "POINTER"
RunsOut(s) ==
  s.verb = "UNSTRING" /\ LET text == CobolSent(cobol, s.from)
                         IN Len(s.into) > Len(Pieces(SubSeq(text, 1, Len(text) - 1), s.by))
MovesTwice(s) ==
  s.verb = "MOVE" /\ \E i, j \in DOMAIN s.into :
    i < j /\ Overlaid(s.into[i]) /\ Overlaid(s.into[j]) /\ View(s.into[i]).base = View(s.into[j]).base
InitializesOverlay(s) ==
  s.verb = "INITIALIZE" /\ IsGroup(s.to) /\ \E x \in _initialize_item_assignments(s.to) : Overlaid(x)
Differs(s) ==
  SharesDelimiter(s) \/ PointerWithoutWith(s) \/ RunsOut(s) \/ MovesTwice(s) \/ InitializesOverlay(s)

\* COBOL leaves a sender that shares storage with a receiver undefined.
Cells(x) ==
  IF IsGroup(x) THEN UNION {IF Len(m.cell) = 2 THEN {m.cell}
                            ELSE {IF Overlaid(m.cell[1]) THEN <<View(m.cell[1]).base>> ELSE m.cell} :
                            m \in ToSet(leaves[x])}
  ELSE IF Overlaid(x) THEN {<<View(x).base>>} ELSE {<<x>>}
Senders(s) ==
  UNION {Cells(x) : x \in CASE s.verb = "STRING" -> UNION {Named(p.from) : p \in ToSet(s.phrases)}
                            [] s.verb \in {"MOVE", "UNSTRING"} -> Named(s.from)
                            [] OTHER -> {}}
Receivers(s) == UNION {Cells(x) : x \in IF s.verb \in {"MOVE", "UNSTRING"} THEN ToSet(s.into) ELSE {s.to}}
Defined(s) == Senders(s) \cap Receivers(s) = {}

-----------------------------------------------------------------------------
StartOf(x) == _initial_bytes(Data.item[x])

TextInit ==
  /\ layout \in DOMAIN Layouts
  /\ leaves = Leaves(Data) /\ inside = Subordinates(Data)
  /\ plan = build_redefines_plan(Data)
  /\ cobol = [c \in {<<x>> : x \in {y \in DOMAIN Data.item : ~Overlaid(y) \/ View(y).base = y}}
                    \cup {m.cell : m \in UNION {ToSet(leaves[g]) : g \in DOMAIN Data.group}}
                |-> IF Len(c) = 2 THEN Data.group[c[1]][c[2]].text ELSE StartOf(c[1])]
  /\ fields = [x \in DOMAIN Data.item |->
                 IF Overlaid(x) THEN Cut(StartOf(View(x).base), View(x).at, WidthOf(x)) ELSE StartOf(x)]
  /\ bytes = [b \in {v.base : v \in plan} |-> StartOf(b)]
  /\ accepted = 0 /\ executed = 0 /\ differs = FALSE
  /\ outcome = IF \E b \in Range(Data.redefines) : Uncertified(Data, b) THEN "refused" ELSE "running"

Execute ==
  /\ outcome = "running" /\ executed < MaxTexts
  /\ \E s \in Texts[layout] :
       LET j == JavaExecute(s)
       IN /\ Defined(s)
          /\ outcome' = CASE RefusedText(s) -> "refused" [] NotJava(s) -> "uncompilable"
                          [] ~j.runs -> "stopped" [] OTHER -> "running"
          /\ IF RefusedText(s) \/ NotJava(s)
             THEN UNCHANGED <<cobol, fields, bytes, accepted, executed, differs>>
             ELSE /\ cobol' = CobolExecute(s)
                  /\ fields' = j.fields /\ bytes' = j.bytes
                  /\ accepted' = IF s.verb = "ACCEPT" THEN Min({accepted + 1, Len(Input)}) ELSE accepted
                  /\ executed' = executed + 1
                  /\ differs' = (differs \/ Differs(s))
  /\ UNCHANGED declared

TextNext == Execute
TextSpec == TextInit /\ [][TextNext]_textVars

-----------------------------------------------------------------------------
\* Whatever the statements and their order, every Java field, and every group
\* read through its fields, holds the characters COBOL's shared storage holds
\* there (map_cobol_statement, _redefines_sync_statements, _group_move_statements,
\* _string_receiver_statements); the Java stops itself only where COBOL's storage
\* has other bytes than digits under a number.
HoldsTheSameText ==
  ~differs =>
    /\ outcome = "running" =>
         /\ \A x \in DOMAIN Data.item : fields[x] = CobolItem(cobol, x)
         /\ \A g \in DOMAIN Data.group : HasLayout(g) => GroupView(fields, g) = CobolText(cobol, g)
    /\ outcome = "stopped" =>
         \E v \in plan : IsNumber(v.name) /\ ~AllDigits(CobolItem(cobol, v.name))
=============================================================================
