------------------------------ MODULE PeImage ------------------------------
(***************************************************************************)
(* The loading of a PE32 file (src/runtime/pe_image.cpp): headers and      *)
(* sections copied into a zeroed image, base relocations, imports,         *)
(* exports.  Addresses count words; a value has W bits.                    *)
(***************************************************************************)
EXTENDS Naturals, Sequences, SequencesExt, FiniteSets

CONSTANTS
  Files,   \* records: words, headers, size, base, secs, blocks, imports, funcs, first, dir, names
  Bases,   \* where the bridge may load
  W        \* width of a word

VARIABLES
  file, at, k,     \* the file, the part of load() under way, its loop counter
  loadBase, image, \* load_base_, image_
  imports, exports \* imports_, exports_
vars == <<file, at, k, loadBase, image, imports, exports>>

Word == 2^W
Init ==
  /\ file \in Files /\ loadBase \in Bases /\ at = "headers" /\ k = 1
  /\ image = [a \in 0..file.size - 1 |-> 0] /\ imports = <<>> /\ exports = <<>>
Goto(stage) == at' = stage /\ k' = 1
Loop(stage, more, next) == at = stage /\ IF k <= more THEN at' = at /\ k' = k + 1 ELSE Goto(next)
----------------------------------------------------------------------------
(* Copying: what the file has of it, as far as the image goes.             *)
Least(a, b) == IF a < b THEN a ELSE b
Copied(dst, src, n) ==
  LET has == IF src + n > Len(file.words) THEN IF src < Len(file.words) THEN Len(file.words) - src ELSE 0 ELSE n
      m == Least(has, file.size - dst)
  IN [a \in DOMAIN image |-> IF a >= dst /\ a < dst + m THEN file.words[src + a - dst + 1] ELSE image[a]]

CopyHeaders == /\ at = "headers" /\ image' = Copied(0, 0, file.headers) /\ Goto("sections")
               /\ UNCHANGED <<file, loadBase, imports, exports>>
MapSection ==
  /\ Loop("sections", Len(file.secs), "relocs") /\ UNCHANGED <<file, loadBase, imports, exports>>
  /\ LET sec == file.secs[k]
     IN image' = IF k > Len(file.secs) \/ sec.va >= file.size THEN image ELSE Copied(sec.va, sec.raw, sec.n)

(* apply_relocs: every HIGHLOW entry of a block that falls in the image.   *)
(* Fault: each base counted from the one before, not from the file's.      *)
DeltaFromHere == loadBase % Word
Delta == (loadBase + Word - file.base) % Word
Relocated(img, page, entry) ==
  LET tgt == page + entry.off
  IN IF entry.type = 3 /\ tgt \in DOMAIN img THEN [img EXCEPT ![tgt] = (@ + Delta) % Word] ELSE img
ApplyBlock ==
  /\ Loop("relocs", IF Delta = 0 THEN 0 ELSE Len(file.blocks), "imports") /\ UNCHANGED <<file, loadBase, imports, exports>>
  /\ image' = IF Delta = 0 \/ k > Len(file.blocks) THEN image
              ELSE LET b == file.blocks[k] IN FoldLeft(LAMBDA img, e : Relocated(img, b.page, e), image, b.entries)
----------------------------------------------------------------------------
(* parse_imports: one descriptor, its names from the lookup table when it  *)
(* has one, for a bound file has addresses where the names were.           *)
Thunks(d) == IF d.lookup # <<>> THEN d.lookup ELSE d.iat
ParseImport ==
  /\ Loop("imports", Len(file.imports), "exports") /\ UNCHANGED <<file, loadBase, image, exports>>
  /\ imports' = IF k > Len(file.imports) THEN imports
                ELSE LET d == file.imports[k]
                     IN imports \o [j \in 1..Len(Thunks(d)) |->
                          [dll |-> d.dll, what |-> Thunks(d)[j], iat_va |-> loadBase + d.iat_rva + j - 1]]

(* parse_exports: the functions, with the gaps of the table left out and   *)
(* no address for a forwarder; then the names, by ordinal.                 *)
Forwarder(rva) == rva >= file.dir.lo /\ rva < file.dir.hi
ParseExport ==
  /\ Loop("exports", Len(file.funcs), "names") /\ UNCHANGED <<file, loadBase, image, imports>>
  /\ exports' = IF k > Len(file.funcs) \/ file.funcs[k] = 0 THEN exports
                ELSE Append(exports, [name |-> "", ordinal |-> file.first + k - 1,
                                      va |-> IF Forwarder(file.funcs[k]) THEN 0 ELSE loadBase + file.funcs[k]])
(* Fault: the index of the name table taken as an index of the list.       *)
NamedAtIndex(idx) == {j \in DOMAIN exports : j = idx + 1}
Named(idx) == {j \in DOMAIN exports : exports[j].ordinal = file.first + idx}
AttachName ==
  /\ Loop("names", Len(file.names), "loaded") /\ UNCHANGED <<file, loadBase, image, imports>>
  /\ LET nm == file.names[k]
     IN exports' = [j \in DOMAIN exports |-> IF k <= Len(file.names) /\ j \in Named(nm.idx)
                                             THEN [exports[j] EXCEPT !.name = nm.name] ELSE exports[j]]
(* patch_iat, for each slot of imports(), by the bridge.                   *)
PatchIat(value) ==
  /\ Loop("loaded", Len(imports), "linked") /\ UNCHANGED <<file, loadBase, imports, exports>>
  /\ image' = IF k > Len(imports) THEN image ELSE [image EXCEPT ![imports[k].iat_va - loadBase] = value]

Next == \/ CopyHeaders \/ MapSection \/ ApplyBlock \/ ParseImport \/ ParseExport \/ AttachName
        \/ PatchIat(IF k > Len(imports) THEN 0 ELSE imports[k].what)
Spec == Init /\ [][Next]_vars

ExportVa(name) == LET hits == SelectSeq(exports, LAMBDA e : e.name = name) IN IF hits = <<>> THEN 0 ELSE hits[1].va
ExportVaOrdinal(o) == LET hits == SelectSeq(exports, LAMBDA e : e.ordinal = o) IN IF hits = <<>> THEN 0 ELSE hits[1].va
----------------------------------------------------------------------------
(* The loaded image is the one the linker laid out for this base: every    *)
(* word comes from the last section that covers it, moved once for each    *)
(* relocation of it, whatever the order of the sections.                   *)
Source(a) ==
  LET over == {i \in 1..Len(file.secs) : LET s == file.secs[i] IN a >= s.va /\ a < s.va + s.n /\ s.raw + a - s.va < Len(file.words)}
      top == CHOOSE i \in over : \A j \in over : j <= i
  IN IF over # {} THEN file.words[file.secs[top].raw + a - file.secs[top].va + 1]
     ELSE IF a < file.headers /\ a < Len(file.words) THEN file.words[a + 1] ELSE 0
Moves(a) == Cardinality({<<b, e>> \in (1..Len(file.blocks)) \X (1..8) :
                           e <= Len(file.blocks[b].entries) /\ file.blocks[b].entries[e].type = 3
                           /\ file.blocks[b].page + file.blocks[b].entries[e].off = a})
AsLinked == at = "loaded" /\ k = 1 => \A a \in DOMAIN image : image[a] = (Source(a) + Moves(a) * (loadBase + Word - file.base)) % Word
(* Every ordinal of the export directory leads to its function, also past  *)
(* a gap; a forwarder and a gap lead nowhere.  A function keeps the last   *)
(* of its names (pe_image.cpp:243): that one leads to it, and the others   *)
(* lead nowhere.                                                           *)
Replaced(n) == \E m \in n + 1 .. Len(file.names) : file.names[m].idx = file.names[n].idx
Target(i) == IF file.funcs[i] = 0 \/ Forwarder(file.funcs[i]) THEN 0 ELSE loadBase + file.funcs[i]
ExportsResolve ==
  at \in {"loaded", "linked"} =>
    /\ \A i \in 1..Len(file.funcs) : ExportVaOrdinal(file.first + i - 1) = Target(i)
    /\ \A n \in 1..Len(file.names) :
         ExportVa(file.names[n].name) = IF Replaced(n) THEN 0 ELSE Target(file.names[n].idx + 1)
(* A linked image has in each slot what the descriptor of that slot asks.  *)
Linked ==
  at = "linked" => \A i \in 1..Len(file.imports) : LET d == file.imports[i] IN
                     \A j \in 1..Len(Thunks(d)) : image[d.iat_rva + j - 1] = Thunks(d)[j]

PeSound == AsLinked /\ ExportsResolve /\ Linked
============================================================================
