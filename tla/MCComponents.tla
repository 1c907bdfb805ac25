---------------------------- MODULE MCComponents -----------------------------
(***************************************************************************)
(* Components with three imported tables and five materializations, after  *)
(* the ones of the address register: one joined by key and by a column,    *)
(* one with a table it does not follow, one that depends on that one, and  *)
(* a component of two that follow nothing.                                 *)
(***************************************************************************)
EXTENDS Components, TLC

CONSTANTS k1, k2, NULL

MCKeys == {k1, k2}
Names == {"x", "y"}

MCTables == {"husnummer", "postnummer", "steder", "adgangsadresser_mat", "stedtilknytninger",
             "ikke_brofaste_adresser", "supplerendebynavne_mat", "supplerendebynavn_kommune_mat"}

dependent(t, column) == [table |-> t, column |-> column]

adgangsadresser_mat ==
  [table |-> "adgangsadresser_mat", nonIncrementalDependents |-> {},
   dependents |-> {dependent("husnummer", "id"), dependent("postnummer", "nr")}]
stedtilknytninger ==
  [table |-> "stedtilknytninger", nonIncrementalDependents |-> {"steder"},
   dependents |-> {dependent("adgangsadresser_mat", "id")}]
ikke_brofaste_adresser ==
  [table |-> "ikke_brofaste_adresser", nonIncrementalDependents |-> {},
   dependents |-> {dependent("stedtilknytninger", "id")}]
supplerende(t) ==
  [table |-> t, nonIncrementalDependents |-> {"adgangsadresser_mat"}, dependents |-> {}]

MCImporters ==
  {[id |-> "DAR", produces |-> {"husnummer", "postnummer"}, requires |-> {}],
   [id |-> "stednavne", produces |-> {"steder"}, requires |-> {}]}

processor(id, materializations) == [id |-> id, materializations |-> materializations]

MCProcessors ==
  {processor(m.table, <<m>>) : m \in {adgangsadresser_mat, stedtilknytninger, ikke_brofaste_adresser}}
    \cup {processor("Legacy-Supplerende-Bynavn",
                    <<supplerende("supplerendebynavne_mat"), supplerende("supplerendebynavn_kommune_mat")>>)}

MCMaterializations ==
  UNION {{p.materializations[i] : i \in DOMAIN p.materializations} : p \in MCProcessors}

MCRows(t) ==
  CASE t = "husnummer" -> [nr : {1, 2}]
    [] t = "postnummer" -> [nr : {1}, navn : Names]
    [] t = "adgangsadresser_mat" -> [nr : {1, 2}, navne : SUBSET Names]
    [] t = "stedtilknytninger" -> [navne : SUBSET Names]
    [] OTHER -> [fundet : {TRUE}]

Present_(table) == {k \in MCKeys : table[k] # NULL}

\* The rows of a view: row(k) for the keys in keys.
Select(keys, row(_)) == [k \in MCKeys |-> IF k \in keys THEN row(k) ELSE NULL]

MCView(m, db) ==
  CASE m.table = "adgangsadresser_mat" ->
         LET nr(k) == db["husnummer"][k].nr
             navne(n) == {db["postnummer"][j].navn :
                            j \in {i \in Present_(db["postnummer"]) : db["postnummer"][i].nr = n}}
             row(k) == [nr |-> nr(k), navne |-> navne(nr(k))]
         IN  Select(Present_(db["husnummer"]), row)
    [] m.table = "stedtilknytninger" ->
         LET row(k) == [navne |-> db["adgangsadresser_mat"][k].navne]
         IN  Select(IF Present_(db["steder"]) = {} THEN {} ELSE Present_(db["adgangsadresser_mat"]), row)
    [] m.table = "ikke_brofaste_adresser" ->
         LET row(k) == [fundet |-> TRUE]
         IN  Select({k \in Present_(db["stedtilknytninger"]) : db["stedtilknytninger"][k].navne # {}}, row)
    [] OTHER ->
         LET row(k) == [fundet |-> TRUE]
         IN  Select({k \in Present_(db["adgangsadresser_mat"]) : db["adgangsadresser_mat"][k].navne # {}}, row)

MCColumn(d, k, row) == IF d.column = "nr" THEN row.nr ELSE k
MCReference(d, j, row) == IF d.column = "nr" THEN row.nr ELSE j

\* At most one postnummer, steder or none.
Husnumre == [MCKeys -> MCRows("husnummer") \cup {NULL}]
Postnumre == {c \in [MCKeys -> MCRows("postnummer") \cup {NULL}] : Cardinality(Present_(c)) <= 1}
MCImported(t) ==
  CASE t = "husnummer" -> {c \in Husnumre : c[k2] # NULL => c[k2].nr = 1}
    [] t = "postnummer" -> {c \in Postnumre : c[k2] # NULL => c[k2].navn = "x"}
    [] t = "steder" -> {c \in [MCKeys -> MCRows(t) \cup {NULL}] : c[k2] = NULL}

\* The daemons run QUICK, other imports all together SLOW, and a repair
\* starts with some processors.
Run(roots, strategy_) == [roots |-> roots, strategy |-> strategy_]
MCRuns ==
  {Run({i}, s) : i \in MCImporters, s \in {"QUICK", "SLOW"}}
    \cup {Run({p \in MCProcessors : p.id = "stedtilknytninger"}, "VERIFY"), Run(MCProcessors, "VERIFY")}
==============================================================================
