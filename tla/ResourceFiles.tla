---------------------------- MODULE ResourceFiles ----------------------------
(***************************************************************************)
(* What the guardrail reads from files when it starts: a patterns file and *)
(* the files it extends (detector/regex.py), a prompt (detector/llm.py), a *)
(* denylist, and the registries of named alternatives (registry.py), all   *)
(* by a reference that is a bundled name or a path (bundled_resource.py).  *)
(* `disk` says what there is: disk.cwd is the working directory,           *)
(* disk.files maps <<directory, name>> to a file.                          *)
(***************************************************************************)
EXTENDS Naturals, Sequences, FiniteSets, SequencesExt

\* A file: `sound` is whether it parses and every entry of its own is usable.
File(sound, own, extends) == [sound |-> sound, own |-> own, extends |-> extends]

\* A reference is a place: a bundled name, a relative path (directory ".") or
\* an absolute one.
Bundled == "bundled"
Here == "."
Place(dir, name) == [dir |-> dir, name |-> name]

Location(disk, p) == <<IF p.dir = Here THEN disk.cwd ELSE p.dir, p.name>>
Readable(disk, p) == Location(disk, p) \in DOMAIN disk.files
Contents(disk, p) == disk.files[Location(disk, p)]

\* resolve_spec for a file of its own, and the default of a detector.
RegexDefault == Place(Bundled, "regex_default.yaml")
PromptDefault == Place(Bundled, "llm_default.md")

\* _resolve_extends: a relative path is taken from the directory of the root
\* file; a file that is itself extended has no directory of its own.
Resolve(ref, dir) == IF ref.dir = Here THEN Place(dir, ref.name) ELSE ref

MaxExtendsDepth == 8
Failed == [ok |-> FALSE, patterns |-> <<>>]
Loaded(q) == [ok |-> TRUE, patterns |-> q]

\* Slip: what is extended takes precedence.
InheritedFirst(own, parts) == FlattenSeq(parts) \o own

\* "A file's OWN patterns take precedence over what it extends."
Inherit(own, parts) == own \o FlattenSeq(parts)

\* The file is one of those that led to it.
Cycle(disk, chain) == \E i \in 1..(Len(chain) - 1) : chain[i] = chain[Len(chain)]

\* _load_recursive: a file's own patterns, then those of each file it extends.
\* A chain is the files from the root to this one.
LoadFrom(disk, root) ==
  LET Dir(chain) == IF Len(chain) = 1 /\ root.dir # Bundled THEN root.dir ELSE Here
      load[chain \in Seq([dir : STRING, name : STRING])] ==
        LET file == Contents(disk, chain[Len(chain)])
            refs == file.extends
            parts == [i \in DOMAIN refs |-> load[Append(chain, Resolve(refs[i], Dir(chain)))]]
        IN IF \/ ~Readable(disk, chain[Len(chain)])
              \/ Len(chain) > MaxExtendsDepth + 1
              \/ Cycle(disk, chain)
           THEN Failed
           ELSE IF ~file.sound \/ \E i \in DOMAIN refs : ~parts[i].ok THEN Failed
           ELSE Loaded(Inherit(file.own, [i \in DOMAIN refs |-> parts[i].patterns]))
  IN load[<<root>>]

\* _load_patterns: a set without a pattern is taken for a mistake.
LoadPatterns(disk, root) ==
  LET all == LoadFrom(disk, root)
  IN IF all.ok /\ all.patterns # <<>> THEN all ELSE Failed

\* The prompt must say something; a denylist may be empty, or not there at all
\* when no path is given.
LoadSystemPrompt(disk, p) == Readable(disk, p) /\ Contents(disk, p).own # <<>>
LoadEntries(disk, p) == Readable(disk, p) /\ Contents(disk, p).sound

(***************************************************************************)
(* A registry: entries name=path, parsed from a comma-separated value.     *)
(***************************************************************************)
Entry(equals, name, path) == [equals |-> equals, name |-> name, path |-> path]
NoPath == Place("", "")
Blank == Entry(FALSE, "", NoPath)
Reserved == {"default"}

Used(entries) == {i \in DOMAIN entries : entries[i] # Blank}

RegistryParses(entries) ==
  /\ \A i \in Used(entries) : /\ entries[i].equals
                              /\ entries[i].name # "" /\ entries[i].path # NoPath
                              /\ entries[i].name \notin Reserved
  /\ \A i, j \in Used(entries) : entries[i].name = entries[j].name => i = j

Registry(entries) ==
  [n \in {entries[i].name : i \in Used(entries)} |->
     entries[CHOOSE i \in Used(entries) : entries[i].name = n].path]
=============================================================================
