---------------------------- MODULE SpreadNavigation ----------------------------
(***************************************************************************)
(* Which pages the viewer shows (src/view_reader.rs, src/spread_offset.rs).  *)
(* In the spread modes two neighbouring pages are shown, the first of which   *)
(* can be a virtual page before the first one, or the second a virtual page    *)
(* behind the last one; an offset of -1, 0 or 1 shifts the pairs.               *)
(*                                                                         *)
(* A frame of the viewer is one step: slideshow, mode keys, a click on a bar,     *)
(* the palette or an edge, then the keys of process_navigation, in this order.     *)
(* The mode is looked at after the mode keys and used to the end of the frame,      *)
(* although a click can change it.  Left out: what is drawn, moves inside an         *)
(* enlarged page, the accumulated wheel, and leaving for another file (Open).         *)
(***************************************************************************)
EXTENDS Integers, FiniteSets

CONSTANTS
  Totals,   \* page counts
  MaxKeys   \* bound: keys of process_navigation pressed in one frame

\* An archive without images gets no viewer (ViewerState::new).
ASSUME TotalsAssumption == Totals \subseteq Nat \ {0}

VARIABLES
  raw,    \* is_raw_file: an image opened by itself, never shown in spreads
  total,  \* entries.len()
  view,   \* page_mode, spread_base, offset, virtual_right, cycle_negative_next
  slides, \* slideshow_active
  torn    \* history: the mode changed under the keys of the same frame

turningVars == <<raw, total, view, slides, torn>>

Modes == {"single", "left", "right"}
Views == [mode : Modes, base : Int, off : -1 .. 1, right : BOOLEAN, back : BOOLEAN]

IsSpread(v) == v.mode # "single"
Step(spread) == IF spread THEN 2 ELSE 1
Lo(v) == v.base + v.off                                           \* spread_lo

\* Indexes of the real pages on the screen
Shown(v) == {Lo(v), Lo(v) + (IF IsSpread(v) THEN 1 ELSE 0)} \cap 0 .. total - 1

-------------------------------------------------------------------------------
(* Turning pages *)

CanAdvance(v, spread) == Lo(v) + Step(spread) <= total - 1
CanRetreat(v, spread) == Lo(v) - Step(spread) >= IF spread THEN -1 ELSE 0

Advance(v, spread) ==
  IF CanAdvance(v, spread) THEN [v EXCEPT !.base = @ + Step(spread)] ELSE v
Retreat(v, spread) ==
  IF CanRetreat(v, spread) THEN [v EXCEPT !.base = @ - Step(spread)] ELSE v

\* update_virtual_right: nothing real is left on the second side.
MarkEnd(v, spread) == [v EXCEPT !.right = spread /\ Lo(v) + 1 >= total]

-------------------------------------------------------------------------------
(* The offset *)

ResetOffset(v) == [v EXCEPT !.off = 0, !.right = FALSE]
VirtualLeft(v) == [v EXCEPT !.off = -1]                           \* force_virtual_left

\* Faulty variant: only the offset bounds the shift.
CanShiftBackwardAnywhere(v) == v.off # -1

CanShiftForward(v)  == v.off # 1 /\ ~v.right /\ Lo(v) + 1 <= total - 1
CanShiftBackward(v) == v.off # -1 /\ Lo(v) - 1 >= -1

ShiftForward(v)  == IF CanShiftForward(v)  THEN [v EXCEPT !.off = @ + 1] ELSE v
ShiftBackward(v) == IF CanShiftBackward(v) THEN [v EXCEPT !.off = @ - 1] ELSE v

\* cycle_spread_offset: to and fro between -1 and 1, past a side that is barred.
CycleOffset(v) ==
  LET moved ==
        IF v.off > 0 THEN ShiftBackward(v)
        ELSE IF v.off < 0 THEN ShiftForward(v)
        ELSE IF v.back
        THEN IF CanShiftBackward(v) THEN ShiftBackward(v) ELSE ShiftForward(v)
        ELSE IF CanShiftForward(v)  THEN ShiftForward(v)  ELSE ShiftBackward(v)
  IN  [moved EXCEPT !.back = IF moved.off = 0 THEN @ ELSE moved.off > 0]

-------------------------------------------------------------------------------
(* Modes and jumps *)

FirstReal(v) == IF Lo(v) < 0 THEN 0 ELSE Lo(v)

SetMode(v, m) ==
  IF m = "single" THEN [ResetOffset(v) EXCEPT !.mode = m, !.base = FirstReal(v)]
  ELSE IF raw \/ v.mode = m THEN v
  ELSE [ResetOffset(v) EXCEPT !.mode = m, !.base = 2 * (FirstReal(v) \div 2)]

NextMode(m) == IF m = "single" THEN "left" ELSE IF m = "left" THEN "right" ELSE "single"

\* Faulty variant: Home keeps the offset in any case.
JumpFirstAsIs(v, spread) ==
  MarkEnd(IF spread THEN [v EXCEPT !.base = 0] ELSE ResetOffset([v EXCEPT !.base = 0]), spread)

\* Home keeps the offset, unless the first page would be skipped.
JumpFirst(v, spread) ==
  LET first == [v EXCEPT !.base = 0]
  IN  MarkEnd(IF ~spread THEN ResetOffset(first)
              ELSE IF Lo(first) > 0 THEN VirtualLeft(first) ELSE first, spread)

\* End: as far as turning pages goes.
JumpLast(v, spread) ==
  LET target == total - 1 - v.off
  IN  MarkEnd(IF spread
              THEN [v EXCEPT !.base = IF target >= 0 THEN (target \div 2) * 2 ELSE 0]
              ELSE ResetOffset([v EXCEPT !.base = total - 1]), spread)

Sorted(v) == ResetOffset([v EXCEPT !.base = 0])                   \* sort_entries

-------------------------------------------------------------------------------
(* A frame *)

Keys == {"komaNext", "komaPrev", "next", "prev", "inc", "dec", "home", "end"}
Clicks == {"none", "next", "prev", "first", "last", "cycleMode", "cycleOffset",
           "left", "right", "single", "inc", "dec", "sort"}

\* Bars, palette and edges; `spread' is the mode the frame began with.
Clicked(v, c, spread) ==
  CASE c = "next" -> Advance(v, spread)
    [] c = "prev" -> Retreat(v, spread)
    [] c = "first" -> JumpFirst(v, spread)
    [] c = "last" -> JumpLast(v, spread)
    [] c = "cycleMode" -> SetMode(v, NextMode(v.mode))
    [] c = "cycleOffset" -> IF spread THEN CycleOffset(v) ELSE v
    [] c \in Modes -> SetMode(v, c)
    [] c = "inc" -> IF IsSpread(v) THEN ShiftForward(v) ELSE v
    [] c = "dec" -> IF IsSpread(v) THEN ShiftBackward(v) ELSE v
    [] c = "sort" -> IF raw THEN v ELSE Sorted(v)
    [] OTHER -> v

If(pressed, new, old) == IF pressed THEN new ELSE old

\* process_navigation
Navigated(v0, keys, spread) ==
  LET v1 == If("komaNext" \in keys, Advance(v0, spread), v0)
      v2 == If("komaPrev" \in keys, Retreat(v1, spread), v1)
      v3 == If("next" \in keys, Advance(v2, spread), v2)
      v4 == MarkEnd(If("prev" \in keys, Retreat(v3, spread), v3), spread)
      v5 == If(spread /\ "inc" \in keys, ShiftForward(v4), v4)
      v6 == If(spread /\ "dec" \in keys, ShiftBackward(v5), v5)
      v7 == If(spread, MarkEnd(v6, spread), v6)
      v8 == If("home" \in keys, JumpFirst(v7, spread), v7)
  IN  If("end" \in keys, JumpLast(v8, spread), v8)

\* tick_slideshow: the next page is due; at the end the slideshow stops.
Slide(due) ==
  IF due /\ slides /\ CanAdvance(view, IsSpread(view)) THEN Advance(view, IsSpread(view)) ELSE view

Frame(due, m, c, keys) ==
  LET shown  == Slide(due)
      chosen == IF m = "none" THEN shown ELSE SetMode(shown, m)
      spread == IsSpread(chosen)
      after  == Clicked(chosen, c, spread)
  IN  /\ view' = Navigated(after, keys, spread)
      /\ torn' = (torn \/ (keys # {} /\ IsSpread(after) # spread))
      /\ \/ slides' = (slides /\ ~(due /\ ~CanAdvance(view, IsSpread(view))))
         \/ slides' \in BOOLEAN        \* started or stopped by hand
      /\ UNCHANGED <<raw, total>>

\* advance_spread_step: the window with the translation turns the page.
TurnFromTranslation(forward) ==
  LET spread == IsSpread(view)
  IN  /\ view' = MarkEnd(IF forward THEN Advance(view, spread) ELSE Retreat(view, spread), spread)
      /\ UNCHANGED <<raw, total, slides, torn>>

\* A file is opened: ViewerState::new, then the saved mode and offset, then the bookmark.
Fresh == [mode |-> "single", base |-> 0, off |-> 0, right |-> FALSE, back |-> TRUE]

Restored(m, shifted) ==
  IF raw' \/ m = "single" THEN Fresh
  ELSE [Fresh EXCEPT !.mode = m, !.off = IF shifted THEN -1 ELSE 0]

Bookmarked(v, n) == ResetOffset([v EXCEPT !.base = n])            \* restore_bookmark_position

Open ==
  /\ \E r \in BOOLEAN, n \in Totals : raw' = r /\ total' = n /\ (r => n = 1)
  /\ \E m \in Modes, shifted \in BOOLEAN :
       LET v == Restored(m, shifted)
       IN  view' = v \/ \E n \in 0 .. total' - 1 : view' = Bookmarked(v, n)
  /\ slides' = FALSE /\ torn' = FALSE

TurningInit ==
  /\ raw \in BOOLEAN /\ total \in Totals /\ (raw => total = 1)
  /\ view = Fresh /\ slides = FALSE /\ torn = FALSE

TurningNext ==
  \/ Open
  \/ \E forward \in BOOLEAN : TurnFromTranslation(forward)
  \/ \E due \in BOOLEAN, m \in Modes \cup {"none"}, c \in Clicks :
       \E keys \in {K \in SUBSET Keys : Cardinality(K) <= MaxKeys} :
         Frame(due, m, c, keys)

TurningSpec == TurningInit /\ [][TurningNext]_turningVars

-------------------------------------------------------------------------------
TurningTypeOK == raw \in BOOLEAN /\ total \in Totals /\ view \in Views
            /\ slides \in BOOLEAN /\ torn \in BOOLEAN

\* However modes, offsets, bookmarks, jumps and page turns follow each other, a page of
\* the file is on the screen: no view of virtual pages only, and in the single mode no
\* virtual page at all - unless a click changed the mode under the keys of its frame.
PageShown == ~torn => Shown(view) # {}

\* From every view Home leads to the first page and End to the last, whatever the offset,
\* and a change of mode keeps the first page on the screen.
JumpsReach ==
  ~torn =>
    /\ 0 \in Shown(JumpFirst(view, IsSpread(view)))
    /\ total - 1 \in Shown(JumpLast(view, IsSpread(view)))
    /\ \A m \in Modes : FirstReal(view) \in Shown(SetMode(view, m))
================================================================================
