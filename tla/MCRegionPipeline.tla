-------------------------- MODULE MCRegionPipeline --------------------------
(* Two pages in packets of one page.  The first has its text and a raster  *)
(* image; the second its text, a copy of the image, a formula that         *)
(* PP-StructureV3 finds, and a chart that only Docling can find.           *)
EXTENDS RegionPipeline

MCOrder == <<"t1", "t2", "p1", "p2", "c2", "f2">>
MCIds == {"t1", "t2", "p1", "p2", "c2", "f2"}

Plain(page, box, kind, origin, native) ==
  [page |-> page, box |-> box, kind |-> kind, origin |-> origin, native |-> native,
   pixels |-> <<page, box>>, math |-> FALSE, blurred |-> FALSE, prose |-> FALSE,
   margin |-> FALSE, hint |-> FALSE, large |-> TRUE]

MCRegion ==
  [t1 |-> Plain(1, "page", "text", "page", "one"),
   t2 |-> Plain(2, "page", "text", "page", "two"),
   p1 |-> Plain(1, "top", "diagram", "raster", ""),
   p2 |-> [Plain(2, "end", "diagram", "raster", "") EXCEPT !.pixels = <<1, "top">>],
   c2 |-> [Plain(2, "top", "chart", "layout", "") EXCEPT !.hint = TRUE],
   f2 |-> Plain(2, "mid", "formula", "layout", "")]

MCReads ==
  [ocr |-> [i \in MCIds |-> {MCRegion[i].native}],
   special |-> [i \in MCIds |-> {IF i = "f2" THEN "broken" ELSE ""}],
   mineru |-> [i \in MCIds |-> {IF i = "t1" THEN "other" ELSE MCRegion[i].native}],
   vlm |-> [i \in MCIds |-> CASE i = "c2" -> {"chart"} [] i = "p1" -> {"seen", "other"} [] OTHER -> {""}]]

MCStructureFinds == <<{{"t1"}}, {{"f2"}}>>
MCDoclingFinds == <<{{"t1"}}, {{"t2", "c2"}}>>
=============================================================================
