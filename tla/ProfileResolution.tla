------------------------- MODULE ProfileResolution -------------------------
(***************************************************************************)
(* How a profile becomes one document (cli/overlay.py, cli/loader.py): a   *)
(* profile may extend others, which are merged left to right, then comes   *)
(* the profile itself, and then the overlay of the chosen environment.     *)
(*                                                                         *)
(* A document is                                                           *)
(*   extends   NoExtends, BadExtends (not a list of names) or a sequence   *)
(*             of references: files, or Outside for what the path rules    *)
(*             refuse;                                                     *)
(*   sections  the mappings of the document other than the modules         *)
(*             (metadata, spec.runtime, ...), each from keys to values;    *)
(*   modules   BadModules (not a list of mappings) or a sequence of        *)
(*             instances, each with an id and the mapping of its fields.   *)
(* A mapping is a function whose domain is what is present.  Provenance    *)
(* maps the paths of the merged document to the file a value came from.    *)
(***************************************************************************)
EXTENDS Integers, FiniteSets, SequencesExt

CONSTANTS Files,         \* profile files and overlay files
          Outside,       \* a reference or an environment that leads out of its directory
          NoExtends, BadExtends, BadModules, NoId,
          Absent,        \* no file of this name
          Unreadable     \* not UTF-8, not YAML, or not a mapping

ASSUME ProfileFiles == IsFiniteSet(Files) /\ Outside \notin Files /\ Absent \notin Files

(***************************************************************************)
(* Merging                                                                 *)
(***************************************************************************)

Override(base, over) ==
    [k \in DOMAIN base \cup DOMAIN over |-> IF k \in DOMAIN over THEN over[k] ELSE base[k]]

Constantly(S, value) == [x \in S |-> value]

\* The paths of the entries `keys` of the mapping at `path`.
Under(path, keys) == {Append(path, k) : k \in keys}

\* _merge_value on two mappings whose values are not mappings: a key of the
\* overlay wins.  A path that no merge has recorded yet is put down to the base.
MergeMapping(base, over, from, source, path, prov) ==
    [value |-> Override(base, over),
     prov  |-> Override(Override(Constantly(Under(path, DOMAIN base), from), prov),
                        Constantly(Under(path, DOMAIN over), source))]

\* _merge_value on the document without its modules: a section in both is
\* merged key by key, and any other is taken as it is.
MergeSections(base, over, from, source, prov) ==
    LET both   == DOMAIN base \cap DOMAIN over
        merged == [s \in both |-> MergeMapping(base[s], over[s], from, source, <<s>>, prov)]
        paths  == UNION {Under(<<s>>, DOMAIN base[s] \cup DOMAIN over[s]) : s \in both}
    IN [value |-> Override(Override(base, over), [s \in both |-> merged[s].value]),
        prov  |-> Override(Override(Override(Constantly({<<s>> : s \in DOMAIN base}, from), prov),
                                    Constantly({<<s>> : s \in DOMAIN over \ both}, source)),
                           [p \in paths |-> merged[p[1]].prov[p]])]

\* The members of a sequence that are in S, in their order.
Only(seq, S) ==
    LET kept[i \in 0 .. Len(seq)] ==
            IF i = 0 THEN <<>>
            ELSE IF seq[i] \in S THEN Append(kept[i - 1], seq[i]) ELSE kept[i - 1]
    IN kept[Len(seq)]

IdsOf(modules) == {modules[i].id : i \in DOMAIN modules}

\* _validate_modules_shape: a list of mappings with unique, present ids.
WellShaped(modules) ==
    /\ modules # BadModules
    /\ NoId \notin IdsOf(modules)
    /\ \A i, j \in DOMAIN modules : modules[i].id = modules[j].id => i = j

FieldsOf(modules, id) ==
    modules[CHOOSE i \in DOMAIN modules : modules[i].id = id].fields

\* The modules of the base, with `merged` for those in both, and the new ones.
MergedModules(base, over, merged) ==
    [i \in DOMAIN base |->
       IF base[i].id \in DOMAIN merged
       THEN [base[i] EXCEPT !.fields = merged[base[i].id].value]
       ELSE base[i]]
    \o Only(over, {m \in Range(over) : m.id \notin DOMAIN merged})

\* _merge_modules: by id, in the order of first appearance.  Every module of
\* the base is put down to `from`, whatever an earlier merge recorded.
MergeModules(base, over, from, source, prov) ==
    LET both   == IdsOf(base) \cap IdsOf(over)
        start  == Override(prov, Constantly({<<"modules", m>> : m \in IdsOf(base)}, from))
        merged == [m \in both |-> MergeMapping(FieldsOf(base, m), FieldsOf(over, m),
                                               from, source, <<"modules", m>>, start)]
        paths  == UNION {Under(<<"modules", m>>,
                               DOMAIN FieldsOf(base, m) \cup DOMAIN FieldsOf(over, m)) : m \in both}
    IN [value |-> MergedModules(base, over, merged),
        prov  |-> Override(Override(start, [p \in paths |-> merged[p[2]].prov[p]]),
                           Constantly({<<"modules", m>> : m \in IdsOf(over)}, source))]

\* What resolving yields: a document with its provenance, or error codes.
Resolved(doc, prov) == [ok |-> TRUE, doc |-> doc, prov |-> prov, errors |-> {}]
FailedWith(errors) == [ok |-> FALSE, doc |-> Absent, prov |-> <<>>, errors |-> errors]
Failed(code) == FailedWith({code})

MergedDocument(sections, modules) ==
    Resolved([extends |-> NoExtends, sections |-> sections, modules |-> modules.value], modules.prov)

\* _merge_profile_docs
MergeDocuments(base, over, from, source, prov) ==
    IF ~(WellShaped(base.modules) /\ WellShaped(over.modules)) THEN Failed("E093")
    ELSE LET sections == MergeSections(base.sections, over.sections, from, source, prov)
         IN MergedDocument(sections.value,
                MergeModules(base.modules, over.modules, from, source, sections.prov))

(***************************************************************************)
(* Loading and extending                                                   *)
(***************************************************************************)

IsDocument(content) == content \notin {Absent, Unreadable}

\* load_yaml_file
Load(content) ==
    CASE content = Absent     -> Failed("E020")
      [] content = Unreadable -> Failed("E001")
      [] OTHER                -> Resolved(content, <<>>)

\* A result of the loop over `extends`, and the last file that went into it.
From(file, result) == Override(result, [from |-> file])

\* Mutant: the first of two parents has its way.
AddParentBelow(soFar, ref, parent) ==
    IF ~soFar.ok THEN soFar
    ELSE IF ref = Outside THEN Failed("E111")
    ELSE IF ~parent.ok THEN parent
    ELSE IF soFar.from = Absent THEN From(ref, parent)
    ELSE From(ref, MergeDocuments(parent.doc, soFar.doc, ref, soFar.from, soFar.prov))

\* One turn of the loop over `extends` in _resolve_and_merge_extends: `soFar`
\* is what the earlier parents came to, `from` the last of them.
AddParent(soFar, ref, parent) ==
    IF ~soFar.ok THEN soFar
    ELSE IF ref = Outside THEN Failed("E111")
    ELSE IF ~parent.ok THEN parent
    ELSE IF soFar.from = Absent THEN From(ref, parent)
    ELSE From(ref, MergeDocuments(soFar.doc, parent.doc, soFar.from, ref, soFar.prov))

\* The document over what its parents came to.
Extend(doc, file, parents) ==
    IF parents.ok THEN MergeDocuments(parents.doc, doc, parents.from, file, parents.prov)
    ELSE FailedWith(parents.errors)

\* The loop over `extends`, given what each file it may refer to resolves to.
MergedParents(refs, parents) ==
    LET merged[i \in 0 .. Len(refs)] ==
          IF i = 0 THEN From(Absent, Resolved(Absent, <<>>))
          ELSE AddParent(merged[i - 1], refs[i],
                         IF refs[i] = Outside THEN merged[i - 1] ELSE parents[refs[i]])
    IN merged[Len(refs)]

\* _resolve_and_merge_extends, for the document `doc` of `file`.
MergeParents(doc, file, parents) ==
    IF doc.extends = NoExtends THEN Resolved(doc, <<>>)
    ELSE IF doc.extends = BadExtends \/ doc.extends = <<>> THEN Failed("E110")
    ELSE Extend(doc, file, MergedParents(doc.extends, parents))

\* _compose_extends: `stack` holds the files on the way to this one.  A parent
\* that does not exist is E112; a file that is its own ancestor is E113.
ComposeExtends(disk, file) ==
    LET compose[stack \in SUBSET Files] ==
          [f \in Files |->
             IF f \in stack THEN Failed("E113")
             ELSE IF ~IsDocument(disk[f]) THEN Load(disk[f])
             ELSE MergeParents(disk[f], f,
                    [ref \in Files |-> IF disk[ref] = Absent THEN Failed("E112")
                                       ELSE compose[stack \cup {f}][ref]])]
    IN compose[{}][file]

\* The overlay step of _resolve_environment_overlay_and_validate; `overlay` is
\* the file of the environment, Outside, or Absent when none is chosen.
ApplyEnvironment(disk, file, base, overlay) ==
    IF ~base.ok \/ overlay = Absent THEN base
    ELSE IF overlay = Outside THEN Failed("E090")
    ELSE IF disk[overlay] = Absent THEN Failed("E091")
    ELSE IF disk[overlay] = Unreadable THEN Load(disk[overlay])
    ELSE MergeDocuments(base.doc, disk[overlay], file, overlay, base.prov)

\* resolve_profile without the validation at its end, and resolve_extends when
\* no environment is chosen.
Resolve(disk, file, overlay) ==
    ApplyEnvironment(disk, file, ComposeExtends(disk, file), overlay)

=============================================================================
