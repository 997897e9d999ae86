--------------------------------- MODULE Png --------------------------------
(***************************************************************************)
(* png.c: one call of png_decode(), chunk by chunk and row by row, with    *)
(* the heap blocks it holds.  Checksums are symbolic: a chunk's CRC and    *)
(* the Adler sum of the stream match or do not; and so is inflate(), which *)
(* module Inflate models: it gives back the rows the encoder compressed if *)
(* it gets the compressed bytes, whole and in order, and fails otherwise.  *)
(***************************************************************************)
EXTENDS Integers, Sequences, FiniteSets, FiniteSetsExt, SequencesExt

CONSTANTS
  Levels,   \* 256: values of a byte
  Colours,  \* 3: colour bytes of a pixel, before alpha
  Pngs      \* the files tried: [chunks, tail, adler, image, raw, step, intact],
            \* and the number of the allocation that finds no room, 0 if none

VARIABLES
  png,      \* the file
  pngpos,   \* the chunk looked at
  ihdr,     \* width, height, color_type and have_ihdr
  idat,     \* the bytes of the IDAT chunks, from the second pass on
  total,    \* idat_total
  scan,     \* raw: the bytes of the rows, each with its filter type in front
  done,     \* rows done by defilter()
  held,     \* blocks of the heap this call has allocated and not freed
  out,      \* out->pixels
  ppc       \* "pass1" | "pass2" | "unzip" | "defilter" | "unpack" | "true" | "false"

pngvars == <<png, pngpos, ihdr, idat, total, scan, done, held, out, ppc>>

\* Return false: of the blocks allocated so far those in `freed' are given back.
Refuse(blocks, freed) ==
  ppc' = "false" /\ held' = blocks \ freed /\ UNCHANGED <<idat, scan, done, out>>

-----------------------------------------------------------------------------
HeaderOk(d) ==
  /\ d.len = 13 /\ d.bit_depth = 8 /\ d.color_type \in {2, 6}
  /\ d.methods = 0 /\ d.width # 0 /\ d.height # 0

AtEnd == pngpos <= Len(png.chunks) => png.chunks[pngpos].type = "IEND"

\* The loops end at a rest shorter than a chunk's first 8 bytes; a longer rest
\* is a chunk that does not fit.
CutOff == pngpos > Len(png.chunks) /\ png.tail = "long"

\* One round of the first pass.
Pass1 ==
  /\ ppc = "pass1"
  /\ \/ CutOff /\ Refuse({}, {}) /\ UNCHANGED <<ihdr, total, pngpos>>
     \/ /\ pngpos <= Len(png.chunks)
        /\ LET c == png.chunks[pngpos]
           IN  \/ ~c.crc /\ Refuse({}, {}) /\ UNCHANGED <<ihdr, total, pngpos>>
               \/ /\ c.crc /\ c.type = "IHDR"
                  /\ IF HeaderOk(c.data)
                     THEN /\ ihdr' = [width |-> c.data.width, height |-> c.data.height,
                                      color_type |-> c.data.color_type, have |-> TRUE]
                          /\ pngpos' = pngpos + 1
                          /\ UNCHANGED <<idat, scan, done, held, out, ppc>>
                     ELSE Refuse({}, {}) /\ UNCHANGED <<ihdr, pngpos>>
                  /\ UNCHANGED total
               \/ /\ c.crc /\ c.type \notin {"IHDR", "IEND"}
                  /\ total' = total + (IF c.type = "IDAT" THEN Len(c.data) ELSE 0)
                  /\ pngpos' = pngpos + 1
                  /\ UNCHANGED <<ihdr, idat, scan, done, held, out, ppc>>
  /\ UNCHANGED png

\* After it: something to decompress, and a block to collect it in.
Pass1End ==
  /\ ppc = "pass1" /\ AtEnd /\ ~CutOff
  /\ pngpos <= Len(png.chunks) => png.chunks[pngpos].crc
  /\ IF ~ihdr.have \/ total < 6 \/ png.oom = 1
     THEN Refuse({}, {}) /\ UNCHANGED pngpos
     ELSE /\ held' = {"idat"} /\ ppc' = "pass2" /\ pngpos' = 1
          /\ UNCHANGED <<idat, scan, done, out>>
  /\ UNCHANGED <<png, ihdr, total>>

\* One round of the second pass.
Pass2 ==
  /\ ppc = "pass2" /\ ~AtEnd
  /\ idat' = IF png.chunks[pngpos].type = "IDAT"
             THEN idat \o png.chunks[pngpos].data ELSE idat
  /\ pngpos' = pngpos + 1
  /\ UNCHANGED <<png, ihdr, total, scan, done, held, out, ppc>>

bpp == IF ihdr.color_type = 6 THEN Colours + 1 ELSE Colours

\* (Mutant.) Only the block of the rows is freed when they do not inflate.
InflateFreesRaw == {"raw"}
InflateFrees == {"raw", "idat"}

\* The zlib header, the rows, the checksum over them.
Unzip ==
  LET body == SubSeq(idat, 3, total - 4)
      sum == SubSeq(idat, total - 3, total)
      raw_size == ihdr.height * (1 + (bpp * ihdr.width))
  IN  /\ ppc = "pass2" /\ AtEnd
      /\ IF "bad" \in {idat[1], idat[2]} \/ png.oom = 2 THEN Refuse({"idat"}, {"idat"})
         ELSE IF body # <<"z1", "z2">> \/ Len(png.raw) # raw_size
         THEN Refuse({"idat", "raw"}, InflateFrees)
         ELSE IF sum # <<"s1", "s2", "s3", "s4">> \/ ~png.adler
         THEN Refuse({"idat", "raw"}, {"idat", "raw"})
         ELSE /\ held' = {"raw"} /\ scan' = png.raw /\ ppc' = "defilter"
              /\ UNCHANGED <<idat, done, out>>
      /\ UNCHANGED <<png, pngpos, ihdr, total>>

-----------------------------------------------------------------------------
AbsDiff(p, q) == IF p < q THEN q - p ELSE p - q

\* (Mutant.) A tie between left and upper left goes to upper left.
PaethCorner(a, b, c) ==
  LET p == a + b - c
  IN  IF AbsDiff(p, a) <= AbsDiff(p, b) /\ AbsDiff(p, a) < AbsDiff(p, c) THEN a
      ELSE IF AbsDiff(p, b) <= AbsDiff(p, c) THEN b ELSE c
paeth_predictor(a, b, c) ==
  LET p == a + b - c
  IN  IF AbsDiff(p, a) <= AbsDiff(p, b) /\ AbsDiff(p, a) <= AbsDiff(p, c) THEN a
      ELSE IF AbsDiff(p, b) <= AbsDiff(p, c) THEN b ELSE c

\* Row r, with its filter type in column 1.
Row(r) ==
  LET n == 1 + (bpp * ihdr.width) IN SubSeq(scan, (n * (r - 1)) + 1, n * r)

\* One row of defilter(): what is to the left is already restored.
Restored(row, up) ==
  LET prow[x \in 2 .. Len(row)] ==
        LET a == IF x - 1 > bpp THEN prow[x - bpp] ELSE 0
            b == IF up # <<>> THEN up[x] ELSE 0
            c == IF up # <<>> /\ x - 1 > bpp THEN up[x - bpp] ELSE 0
        IN  (row[x] + (CASE row[1] = 0 -> 0
                         [] row[1] = 1 -> a
                         [] row[1] = 2 -> b
                         [] row[1] = 3 -> (a + b) \div 2
                         [] row[1] = 4 -> paeth_predictor(a, b, c))) % Levels
  IN  [x \in 1 .. Len(row) |-> IF x = 1 THEN row[1] ELSE prow[x]]

Defilter ==
  /\ ppc = "defilter" /\ done < ihdr.height
  /\ IF Row(done + 1)[1] > 4 THEN Refuse({"raw"}, {"raw"})
     ELSE /\ LET new == Restored(Row(done + 1), IF done = 0 THEN <<>> ELSE Row(done))
             IN  scan' = [k \in 1 .. Len(scan) |->
                            IF k - (done * Len(new)) \in 1 .. Len(new)
                            THEN new[k - (done * Len(new))] ELSE scan[k]]
          /\ done' = done + 1
          /\ UNCHANGED <<idat, held, out, ppc>>
  /\ UNCHANGED <<png, pngpos, ihdr, total>>

Pixel(row, x) ==
  LET at == 1 + (x * bpp)
  IN  IF bpp = Colours + 1 /\ row[at + Colours + 1] = 0 THEN <<>>
      ELSE SubSeq(row, at + 1, at + Colours)

\* IMAGE_TRANSPARENT is the empty pixel.
Unpack ==
  /\ ppc = "defilter" /\ done = ihdr.height
  /\ IF png.oom = 3 THEN Refuse({"raw"}, {"raw"})
     ELSE /\ held' = {"pixels"} /\ ppc' = "true"
          /\ out' = [r \in 1 .. ihdr.height |->
                       [x \in 1 .. ihdr.width |-> Pixel(Row(r), x - 1)]]
          /\ UNCHANGED <<idat, scan, done>>
  /\ UNCHANGED <<png, pngpos, ihdr, total>>

PngInit ==
  /\ png \in Pngs
  /\ pngpos = 1 /\ total = 0 /\ done = 0
  /\ ihdr = [width |-> 0, height |-> 0, color_type |-> 0, have |-> FALSE]
  /\ idat = <<>> /\ scan = <<>> /\ out = <<>> /\ held = {}
  /\ ppc = "pass1"

PngNext == Pass1 \/ Pass1End \/ Pass2 \/ Unzip \/ Defilter \/ Unpack

-----------------------------------------------------------------------------
(***************************************************************************)
(* The reference encoder: rows filtered as the PNG specification says, and *)
(* a file made of them.  An image is a sequence of rows of bytes.          *)
(***************************************************************************)
Nearest(p, a, b, c) ==
  LET order == <<a, b, c>>
      least == Min({AbsDiff(p, order[k]) : k \in 1 .. 3})
  IN  order[Min({k \in 1 .. 3 : AbsDiff(p, order[k]) = least})]

Filtered(image, types, step) ==
  [r \in 1 .. Len(image) |->
     LET byte(row, x) == IF row = 0 \/ x < 1 THEN 0 ELSE image[row][x]
         guess(x) == LET a == byte(r, x - step)
                         b == byte(r - 1, x)
                         c == byte(r - 1, x - step)
                     IN  <<0, a, b, (a + b) \div 2, Nearest(a + b - c, a, b, c)>>[types[r] + 1]
     IN  <<types[r]>> \o [x \in 1 .. Len(image[r]) |->
                            (image[r][x] - guess(x)) % Levels]]

Chunk(type, data) == [type |-> type, crc |-> TRUE, data |-> data]
Zlib == <<"cmf", "flg", "z1", "z2", "s1", "s2", "s3", "s4">>

\* An image with `step' bytes a pixel, its stream cut in two after n bytes.
Encoded(image, types, step, n) ==
  [chunks |-> <<Chunk("IHDR", [len |-> 13, bit_depth |-> 8, methods |-> 0,
                               color_type |-> IF step > Colours THEN 6 ELSE 2,
                               width |-> Len(image[1]) \div step, height |-> Len(image)]),
                Chunk("IDAT", SubSeq(Zlib, 1, n)), Chunk("other", <<>>),
                Chunk("IDAT", SubSeq(Zlib, n + 1, Len(Zlib))), Chunk("IEND", <<>>)>>,
   tail |-> "none", adler |-> TRUE, image |-> image,
   raw |-> FlattenSeq(Filtered(image, types, step)), step |-> step,
   intact |-> TRUE, oom |-> 0]

\* What may happen to a file: a chunk damaged, lost or exchanged with another, an
\* end cut off, a wrong checksum or header under checksums that are right.
Damaged(f) ==
  LET bad(g) == [g EXCEPT !.intact = FALSE]
      n == Len(f.chunks)
      keep(k) == SubSeq(f.chunks, 1, k)
  IN  {bad([f EXCEPT !.chunks[k].crc = FALSE]) : k \in 1 .. n}
      \cup {bad([f EXCEPT !.chunks = RemoveAt(@, k)]) : k \in 1 .. n}
      \cup {bad([f EXCEPT !.chunks = keep(k), !.tail = t]) :
              k \in 0 .. n - 1, t \in {"short", "long"}}
      \cup {bad([f EXCEPT !.chunks = [@ EXCEPT ![2] = f.chunks[4], ![4] = f.chunks[2]]]), bad([f EXCEPT !.adler = FALSE]),
            bad([f EXCEPT !.chunks[2].data = [@ EXCEPT ![1] = "bad"]])}
      \cup {bad([f EXCEPT !.chunks[1].data = h]) :
              h \in {[f.chunks[1].data EXCEPT !.len = 12],
                     [f.chunks[1].data EXCEPT !.bit_depth = 16],
                     [f.chunks[1].data EXCEPT !.color_type = 3],
                     [f.chunks[1].data EXCEPT !.color_type = 8 - @],
                     [f.chunks[1].data EXCEPT !.methods = 1],
                     [f.chunks[1].data EXCEPT !.width = 0],
                     [f.chunks[1].data EXCEPT !.width = @ + 1],
                     [f.chunks[1].data EXCEPT !.height = @ + 1]}}
      \cup {bad([f EXCEPT !.raw[1] = 5])}

\* The picture a file was made of.
Picture ==
  LET step == png.step
      pixel(row, x) == IF step > Colours /\ row[x * step] = 0 THEN <<>>
                       ELSE SubSeq(row, (x - 1) * step + 1, (x - 1) * step + Colours)
  IN  [r \in 1 .. Len(png.image) |->
         [x \in 1 .. Len(png.image[r]) \div step |-> pixel(png.image[r], x)]]

-----------------------------------------------------------------------------
\* png_decode() decodes every file an encoder made, whatever the filters and
\* wherever the stream is split, into the picture it was made of; a file that is
\* damaged is refused or still gives that picture; and what the call keeps of the
\* heap is the pixels if it succeeded and nothing if it did not, at whatever point
\* it stopped.
PngExact ==
  /\ ppc = "true" => out = Picture /\ held = {"pixels"}
  /\ ppc = "false" => held = {} /\ (png.intact => png.oom # 0)
=============================================================================
