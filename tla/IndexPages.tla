------------------------------ MODULE IndexPages ------------------------------
(***************************************************************************)
(* The page each Markdown writer makes of an index: writeIndexMarkdown of  *)
(* bicep-types/src/writers/markdown.ts and generateIndexMarkdown of        *)
(* bicep-types-go/writers/markdown.go.  The resources of a page are a set  *)
(* of bullets, because both sort them by their lower-case texts, which     *)
(* differ in an index.  A provider's heading is part of its resources'.    *)
(***************************************************************************)
EXTENDS GoIndex

AtPlaces(name) == {i \in DOMAIN name : name[i] = At}

FirstAt(name) ==
  IF AtPlaces(name) = {} THEN Len(name) + 1
  ELSE CHOOSE i \in AtPlaces(name) : \A j \in AtPlaces(name) : i <= j

(* The heading a resource is listed under: its type in lower case.         *)
ResourceTypeKey(name) == LowerName(SubSeq(name, 1, FirstAt(name) - 1))

(* Link texts only keep letters, digits and dashes, in lower case.         *)
Anchor(name) == SelectSeq(LowerName(name), LAMBDA char : char \in Token)

(* Mutant of GoVersion: keeps the At.                                      *)
GoVersionWithAt(name) == SubSeq(name, FirstAt(name), Len(name))

(* The text of the bullet: Go takes what follows the first At, TypeScript  *)
(* what follows it up to the next.                                         *)
GoVersion(name) == SubSeq(name, FirstAt(name) + 1, Len(name))

TsVersion(name) ==
  LET rest == SubSeq(name, FirstAt(name) + 1, Len(name))
  IN  IF AtPlaces(name) = {} THEN None ELSE SubSeq(rest, 1, FirstAt(rest) - 1)

Bullet(name, version, ref) ==
  [heading |-> ResourceTypeKey(name), version |-> version,
   path |-> ref.relativePath, anchor |-> Anchor(name)]

Bullets(resources, versions) ==
  {Bullet(name, versions[name], resources[name]) : name \in DOMAIN resources}

(* The name of a namespace function is looked up in the type file with the *)
(* path of the reference.                                                  *)
FunctionName(typeFiles, ref) ==
  LET named == {e \in EntrySet(typeFiles, "NamespaceFunctionType") : e.ref = ref}
  IN  IF named = {} THEN None ELSE (CHOOSE e \in named : TRUE).type.name

FunctionBullets(refs, typeFiles) ==
  [i \in DOMAIN refs |->
     [name |-> FunctionName(typeFiles, refs[i]), path |-> refs[i].relativePath]]

EmptyPage == [resources |-> {}, functions |-> <<>>]

(* Go leaves the page empty when there are no resources.                   *)
GoIndexPage(idx, typeFiles) ==
  IF DOMAIN idx.Resources = {} THEN EmptyPage
  ELSE LET flattened == [name \in {FlatKey(key) : key \in DOMAIN idx.Resources} |->
                           idx.Resources[Parts(name)]]
       IN  [resources |-> Bullets(flattened, [name \in DOMAIN flattened |-> GoVersion(name)]),
            functions |-> FunctionBullets(idx.NamespaceFunctions, typeFiles)]

TsIndexPage(resources, namespaceFunctions, typeFiles) ==
  [resources |-> Bullets(resources, [name \in DOMAIN resources |-> TsVersion(name)]),
   functions |-> FunctionBullets(namespaceFunctions, typeFiles)]
==============================================================================
