--------------------------------- MODULE Pages ---------------------------------
(* What the TUI draws (render.rs, widgets.rs) of the state it keeps for its
   pages (state.rs): the mode bar, the panels of a page, the section list of the
   hardware page with its cursor and scroll, and the columns of the process
   table, while snapshots and reports arrive, keys are pressed and the terminal
   is resized.  What ratatui makes of the constraints is external: `area` is what
   it leaves for the body of the page.  Texts and styles are left out.          *)
EXTENDS Integers, Sequences, FiniteSets, Enumeration, Absent

CONSTANTS
  DataTypes,  \* the keys a hardware report may have, as numbers in their order
  Ranking,    \* HARDWARE_SECTION_ORDER: those of them that have a place
  Transport,  \* the sections of transport_sections, as further numbers
  Areas,      \* the sizes of a body
  Deepest     \* bound: what detail_scroll can hold (65535)

ASSUME PagesAssumption ==
  /\ DataTypes \subseteq Nat /\ IsFiniteSet(DataTypes)
  /\ Ranking \in Seq(DataTypes) /\ Transport \in Seq(Nat) /\ None \notin Nat
  /\ Areas \subseteq [width : Nat, height : Nat]
  /\ Deepest \in Nat

VARIABLES
  page,       \* UiState.mode
  gpuData,    \* whether the snapshot on display has GPU data: "unknown" before the first
  sections,   \* the hardware sections, by their keys
  cursor,     \* section_selected, from 0
  scroll,     \* detail_scroll
  typing,     \* a prompt is open
  area,       \* the size of the body
  scrolled,   \* history: the section the reader paged in last
  exchanged   \* history: since then a report has put another section in its place

pagesVars == <<page, gpuData, sections, cursor, scroll, typing, area, scrolled, exchanged>>

PlaceOf(list, e) == CHOOSE i \in DOMAIN list : list[i] = e
Ranked(list, e) == \E i \in DOMAIN list : list[i] = e

Least(a, b) == IF a < b THEN a ELSE b
Minus(a, b) == IF a < b THEN 0 ELSE a - b

-------------------------------------------------------------------------------
(* The mode bar. *)

(* AppMode::ALL; a page's number is its place. *)
AllPages == <<"Overview", "Processes", "Cpu", "Memory", "Network", "Disk", "Gpu",
              "Hardware", "Sensors">>

Available(p) == p # "Gpu" \/ gpuData = "present"

(* render_modes. *)
Tabs == Picked(AllPages, {i \in DOMAIN AllPages : Available(AllPages[i])})

(* cycle_mode: from the page's place among all, the first that is available. *)
Cycled(p, step) ==
  LET around(n) == AllPages[(((PlaceOf(AllPages, p) - 1) + n * step) % Len(AllPages)) + 1]
      tries == {n \in DOMAIN AllPages : Available(around(n))}
  IN  around(CHOOSE n \in tries : \A m \in tries : n <= m)

-------------------------------------------------------------------------------
(* The sections of the hardware page. *)

Rank(key) == IF Ranked(Ranking, key) THEN PlaceOf(Ranking, key) ELSE Len(Ranking) + 1

Before(a, b) == Rank(a) < Rank(b) \/ (Rank(a) = Rank(b) /\ a < b)

(* hardware_report_with_privacy: the keys of an answer of system_profiler; one
   that fails changes no section.                                              *)
Reports == SUBSET DataTypes

(* hardware_sections: the key at each place has as many before it. *)
HardwareSections(keys) ==
  [i \in 1 .. Cardinality(keys) |->
     CHOOSE key \in keys : Cardinality({other \in keys : Before(other, key)}) = i - 1]

LastSection(list) == Minus(Len(list), 1)

(* selected_section: none without a report. *)
Selected(list, at) == IF at + 1 \in DOMAIN list THEN list[at + 1] ELSE None

-------------------------------------------------------------------------------
(* The panels, and what is in them. *)

Narrow == area.width < 92

SidePanel == 36      \* PROCESS_DETAIL_COLUMNS

(* render_body, render_primary. *)
Panels ==
  CASE page = "Hardware"  -> {"sections", "section"}
    [] page = "Processes" -> IF Narrow THEN {"processes"} ELSE {"processes", "process"}
    [] OTHER              -> IF gpuData = "unknown" THEN {"waiting"} ELSE {page}

(* Stacked, the list has seven lines, or what three for the section leave. *)
ListHeight == IF Narrow THEN Least(7, Minus(area.height, 3)) ELSE area.height

Inside == IF ListHeight > 2 THEN ListHeight - 2 ELSE 1

(* render_section_list: the sections listed, by their numbers from 0. *)
SectionsListed ==
  LET offset == Minus(cursor, Inside - 1)
  IN  offset .. Least(offset + Inside, Len(sections)) - 1

(* Lines that the frame of the list leaves; the others are not drawn. *)
LinesInside == Minus(ListHeight, 2)

(* render_section_detail. *)
SectionShown == Selected(sections, cursor)

(* The columns of the process table: fixed ones, and the command in the rest. *)
FixedColumns == 7 + 7 + 6 + 8 + 5 + 10
EnergyColumns == 6 + 6
MinCommand == 16

TableWidth == IF Narrow THEN area.width ELSE Minus(area.width, SidePanel)

(* process_energy_min_width: nine columns with eight spaces, in a frame. *)
EnergyMinWidth == EnergyColumns + FixedColumns + 8 + 2 + MinCommand

ShowEnergy == TableWidth >= EnergyMinWidth

(* render_process_table: what the other columns leave for the command. *)
CommandWidth ==
  TableWidth - 2 - (IF ShowEnergy THEN FixedColumns + EnergyColumns + 8 ELSE FixedColumns + 6)

-------------------------------------------------------------------------------
PagesInit ==
  /\ page \in {AllPages[i] : i \in DOMAIN AllPages}
  /\ gpuData = "unknown" /\ sections = <<>> /\ cursor = 0 /\ scroll = 0
  /\ typing = FALSE /\ area \in Areas
  /\ scrolled = None /\ exchanged = FALSE

reading == <<cursor, scroll, scrolled, exchanged>>

(* switch_mode. *)
SwitchTo(p) ==
  IF p = page THEN UNCHANGED <<page, reading>>
  ELSE page' = p /\ cursor' = 0 /\ scroll' = 0 /\ UNCHANGED <<scrolled, exchanged>>

(* set_snapshot: without GPU data there is no GPU page. *)
TakeSnapshot(data) ==
  /\ gpuData' = data
  /\ IF page = "Gpu" /\ data = "absent" THEN SwitchTo("Overview") ELSE UNCHANGED <<page, reading>>
  /\ UNCHANGED <<sections, typing, area>>

\* Seeded fault: the cursor stays when the list gets shorter.
CursorKept(list) == cursor

Clamped(list) == Least(cursor, LastSection(list))

(* A hardware report, which apply_detail takes on its own page only. *)
TakeReport(keys) ==
  /\ page = "Hardware"
  /\ sections' = HardwareSections(keys) \o Transport
  /\ cursor' = Clamped(sections')
  /\ exchanged' = (exchanged \/ Selected(sections', cursor') # SectionShown)
  /\ UNCHANGED <<page, gpuData, scroll, typing, area, scrolled>>

(* Up, Down, Home and End on the hardware page. *)
MoveSection ==
  /\ page = "Hardware" /\ ~typing
  /\ cursor' \in {Minus(cursor, 1), Least(cursor + 1, LastSection(sections)), 0, LastSection(sections)}
  /\ scroll' = 0
  /\ UNCHANGED <<page, gpuData, sections, typing, area, scrolled, exchanged>>

(* PgUp and PgDn, ten lines each. *)
ScrollSection ==
  /\ page = "Hardware" /\ ~typing
  /\ scroll' \in {Minus(scroll, 10), Least(scroll + 10, Deepest)}
  /\ IF scroll' = scroll THEN UNCHANGED <<scrolled, exchanged>>
     ELSE scrolled' = SectionShown /\ exchanged' = FALSE
  /\ UNCHANGED <<page, gpuData, sections, cursor, typing, area>>

(* The digits and F keys, and the arrows to both sides. *)
ChoosePage ==
  /\ ~typing
  /\ \/ \E i \in DOMAIN AllPages : Available(AllPages[i]) /\ SwitchTo(AllPages[i])
     \/ \E step \in {-1, 1} : SwitchTo(Cycled(page, step))
  /\ UNCHANGED <<gpuData, sections, typing, area>>

(* Help and the prompts take all keys until they are closed. *)
Prompt ==
  /\ typing' = ~typing
  /\ UNCHANGED <<page, gpuData, sections, reading, area>>

Resize ==
  /\ area' \in Areas
  /\ UNCHANGED <<page, gpuData, sections, reading, typing>>

PagesNext ==
  \/ \E data \in {"present", "absent"} : TakeSnapshot(data)
  \/ \E keys \in Reports : TakeReport(keys)
  \/ MoveSection \/ ScrollSection \/ ChoosePage \/ Prompt \/ Resize

PagesSpec == PagesInit /\ [][PagesNext]_pagesVars

-------------------------------------------------------------------------------
(* Every variable has its type. *)
PagesTypeOK ==
  /\ page \in {AllPages[i] : i \in DOMAIN AllPages}
  /\ gpuData \in {"unknown", "present", "absent"}
  /\ Len(sections) \in Nat /\ DOMAIN sections = 1 .. Len(sections)
  /\ cursor \in Nat /\ scroll \in 0 .. Deepest
  /\ typing \in BOOLEAN /\ area \in Areas /\ exchanged \in BOOLEAN

(* "The cursor never scrolls off the screen" (render.rs:180): wherever the list
   has a line, the section under the cursor is listed, its text is the one shown
   next to it, and no line is left empty while there are sections for it.      *)
SectionOnScreen ==
  sections # <<>> =>
    /\ cursor + 1 \in DOMAIN sections /\ SectionShown = sections[cursor + 1]
    /\ LinesInside > 0 =>
         /\ cursor \in SectionsListed
         /\ Cardinality(SectionsListed) = Least(LinesInside, Len(sections))

(* The text starts at its top, or where the reader has paged to in the same
   section ("or the new section would be shown from its middle", lib.rs:1721),
   unless a report has exchanged the section.                                   *)
ScrollIsOwn == scroll # 0 /\ ~exchanged => SectionShown = scrolled

(* After the first snapshot the page has a tab and data, and the arrows go to the
   tabs next to it (the comment at state.rs:388).                                *)
PageHasTab ==
  gpuData # "unknown" =>
    /\ Available(page) /\ "waiting" \notin Panels
    /\ \E i \in DOMAIN Tabs :
         /\ Tabs[i] = page
         /\ Cycled(page, 1) = Tabs[(i % Len(Tabs)) + 1]
         /\ Cycled(Cycled(page, 1), -1) = page

(* "When the command column is narrower than this one cannot tell which process it
   is, and the energy columns give way" (widgets.rs:41).                          *)
CommandReadable == ShowEnergy => CommandWidth >= MinCommand

SectionsReadable == SectionOnScreen /\ ScrollIsOwn /\ CommandReadable

(* However reports, snapshots, keys and sizes follow each other, what the reader
   works with is on the screen.                                                  *)
PageIsReadable == SectionsReadable /\ PageHasTab
================================================================================
