----------------------------- MODULE AnalyticsPdf -----------------------------
(***************************************************************************)
(* The layout of the analytics report as a PDF document                    *)
(* (src/server/organizations/analytics-pdf.ts): a pen that goes down the   *)
(* page, and the places where it turns to a new one.  Heights are points,  *)
(* rounded down.  Of a text only its height counts: no letter is taller    *)
(* than the size of its font or hangs lower than a quarter of it.  Wording,*)
(* colours and the horizontal layout are left out.                         *)
(* A definition named <What>_<definition> is <definition> with a bug in it *)
(* that the properties are shown to catch; nothing else uses it.           *)
(***************************************************************************)
EXTENDS Integers, Sequences

CONSTANTS
  RowCounts,     \* how many rows a table of the report may have
  HeaderLines,   \* on how many lines the longest header of a table wraps
  PeakLines      \* how many lines the peak has, none when nothing was issued

ASSUME LayoutOK == /\ RowCounts \subseteq Nat
                   /\ HeaderLines \subseteq 1..2
                   /\ PeakLines \subseteq 0..2

PAGE_HEIGHT == 841
MARGIN == 48

VARIABLES
  y,       \* doc.y
  page,    \* doc.pageNumber
  todo,    \* what is still to be drawn, in order
  header,  \* height of the header of the table being drawn
  drawn,   \* the parts on this page in the order they were drawn: what, from and to
           \* which height, letters included
  footers  \* the pages with a footer, in the order they got it

pdfVars == <<y, page, todo, header, drawn, footers>>

Space(needed) == <<[what |-> "space", needed |-> needed]>>
Title == <<[what |-> "title"]>>

TableSection(rows) == Space(60) \o Title \o <<[what |-> "header"]>>
                      \o [i \in 1..rows |-> [what |-> "row"]] \o <<[what |-> "tableEnd"]>>

ChartSection == Space(200) \o Title \o <<[what |-> "chart"]>>

\* The sections in the order of renderAnalyticsPdf: branches, queues, staff and the six
\* statuses, arrivals and departures by hour, and days.
Report(branches, queues, staff, peak) ==
  <<[what |-> "masthead"], [what |-> "kpis"]>>
  \o (IF peak = 0 THEN << >> ELSE Title \o <<[what |-> "peak", lines |-> peak]>>)
  \o TableSection(branches) \o TableSection(queues) \o TableSection(staff) \o TableSection(6)
  \o ChartSection \o ChartSection \o ChartSection \o <<[what |-> "end"]>>

PdfInit ==
  /\ y = PAGE_HEIGHT - MARGIN
  /\ page = 1
  /\ \E branches, queues, staff \in RowCounts, peak \in PeakLines :
       todo = Report(branches, queues, staff, peak)
  /\ header \in {10 * lines + 6 : lines \in HeaderLines}
  /\ drawn = << >>
  /\ footers = << >>

Doing(what) == todo # << >> /\ Head(todo).what = what
Done == todo' = Tail(todo)

LacksSpace(needed) == y - needed < MARGIN + 24

\* newPage: the footer of the page that is full, and the top of the next.
Footer == footers' = Append(footers, page)
TopOfNewPage == PAGE_HEIGHT - MARGIN

Part(what, top, bottom) == [what |-> what, top |-> top, bottom |-> bottom]

\* Draw a part and move the pen down by `height`; its ink reaches `rise` over the pen, where
\* the baseline of its first text is, and `ink` under it.
Draw(what, rise, height, ink) ==
  /\ drawn' = Append(drawn, Part(what, y + rise, y - ink))
  /\ y' = y - height
  /\ Done
  /\ UNCHANGED <<page, header, footers>>

DrawMasthead ==
  Doing("masthead") /\ Draw("masthead", 20, 22 + 15 + 4 * 12 + 6, 22 + 15 + 3 * 12 + 3)

\* Two rows of three figures, in boxes of 46.
DrawKpis == Doing("kpis") /\ Draw("kpis", 0, 2 * 58 + 6, 58 + 46)

DrawPeak ==
  Doing("peak") /\ Draw("peak", 10, Head(todo).lines * 15 + 6, (Head(todo).lines - 1) * 15 + 3)

\* sectionTitle: the text, and a line under it.
SectionTitle == Doing("title") /\ Draw("title", 12, 26, 8)

EnsureSpace ==
  /\ Doing("space")
  /\ IF LacksSpace(Head(todo).needed)
     THEN y' = TopOfNewPage /\ page' = page + 1 /\ drawn' = << >> /\ Footer
     ELSE UNCHANGED <<y, page, drawn, footers>>
  /\ Done
  /\ UNCHANGED header

\* A new page where `needed` points are lacking, and then `parts` of it.
OnPage(turn, parts) ==
  /\ page' = IF turn THEN page + 1 ELSE page
  /\ drawn' = (IF turn THEN << >> ELSE drawn) \o parts
  /\ IF turn THEN Footer ELSE UNCHANGED footers
  /\ Done
  /\ UNCHANGED header

\* ensureSpace(headerHeight + 20) and drawHeader, where a table starts.
DrawHeader ==
  LET turn == LacksSpace(header + 20)
      top == IF turn THEN TopOfNewPage ELSE y
  IN /\ Doing("header")
     /\ y' = top - header - 4
     /\ OnPage(turn, <<Part("header", top, top - header)>>)

\* The text of a row, 9 points high on the pen at `pen`.
Row(pen) == Part("row", pen + 9, pen - 3)

Bare_DrawRow ==
  LET turn == LacksSpace(16)
      top == IF turn THEN TopOfNewPage ELSE y
  IN /\ Doing("row")
     /\ y' = top - 15
     /\ OnPage(turn, <<Row(top)>>)

\* A row, under the header again when it starts a page.
DrawRow ==
  LET turn == LacksSpace(16)
      top == IF turn THEN TopOfNewPage - header - 4 ELSE y
      again == IF turn THEN <<Part("header", TopOfNewPage, TopOfNewPage - header)>> ELSE << >>
  IN /\ Doing("row")
     /\ y' = top - 15
     /\ OnPage(turn, again \o <<Row(top)>>)

EndTable == /\ Doing("tableEnd")
            /\ y' = y - 14
            /\ Done
            /\ UNCHANGED <<page, header, drawn, footers>>

\* drawBarChart: the base is 128 under the top, its labels 12 under the base.
DrawChart == Doing("chart") /\ Draw("chart", 0, 128 + 26, 128 + 12 + 2)

\* The last page has its footer too.
Save == /\ Doing("end")
        /\ Footer
        /\ Done
        /\ UNCHANGED <<y, page, header, drawn>>

PdfNext == \/ DrawMasthead \/ DrawKpis \/ DrawPeak \/ SectionTitle \/ EnsureSpace
           \/ DrawHeader \/ DrawRow \/ EndTable \/ DrawChart \/ Save

-----------------------------------------------------------------------------
\* What the reader of the document relies on.

\* A part is under another.  The first row of a table may reach into the shaded band of the
\* header, where the baseline of the header's last line is 6 over the edge, and no higher.
Under(part, above) ==
  part.top <= above.bottom + (IF part.what = "row" /\ above.what = "header" THEN 6 ELSE 0)

\* However long its tables are, each part of the document is under those drawn before it on
\* the page, there is no ink in the bottom margin or in the footer, a header is over the rows
\* of every page, and each page has its footer (analytics-pdf.ts:4-7, "automatic page breaks
\* and page numbers").
LayoutSound ==
  /\ \A i \in DOMAIN drawn :
       /\ drawn[i].bottom >= MARGIN
       /\ \A j \in 1..(i - 1) : Under(drawn[i], drawn[j])
       /\ drawn[i].what = "row" => \E j \in 1..(i - 1) : drawn[j].what = "header"
  /\ footers = [n \in 1..(IF todo = << >> THEN page ELSE page - 1) |-> n]
=============================================================================
