---------------------------- MODULE MCProfileLoad ----------------------------
(***************************************************************************)
(* A small instance of ProfileLoad: people and groups, a second container  *)
(* of people, numbers in blocks more than two apart, and configs that      *)
(* match by name, by place and class, or not at all.                       *)
(***************************************************************************)
EXTENDS ProfileLoad, TLC

MCBase   == <<"dc=x">>
People   == <<"ou=people", "dc=x">>
Groups   == <<"ou=groups", "dc=x">>
Nested   == <<"ou=people", "ou=people", "dc=x">>
MCOrder  == <<MCBase, People, Groups, Nested>>
MCSlug   == ("dc=x" :> <<"x">>) @@ ("ou=people" :> <<"people">>) @@ ("ou=groups" :> <<"groups">>)
MCAlphabet == <<"account", "group", "groupOfNames", "groups", "nobody", "organizationalUnit",
                "people", "person", "posixGroup", "posixgroup", "staff", "svc", "user", "x">>

Account    == {"account", "posixAccount"}
PosixGroup == {"posixGroup"}

Entry(dn, classes, uid, gid, member) ==
  [dn |-> dn, classes |-> classes, uidNumber |-> uid, gidNumber |-> gid, member |-> member]
Ou(name)            == Entry(<<name>> \o MCBase, {"organizationalUnit"}, {}, {}, {})
User(name, at, uid, gid) == Entry(<<name>> \o at, Account, {uid}, {gid}, {})
Group(name, gid)    == Entry(<<name>> \o Groups, PosixGroup, {}, {gid}, {})

Ous == {Ou("ou=people"), Ou("ou=groups")}
Pair(name, number) == {User(name, People, number, number), Group(name, number)}
Sharing == {User("ann", People, 11, 16), User("bob", People, 12, 16), Group("staff", 16)}
Neighbours == Pair("ann", 11) \cup {Group("staff", 12),
                Entry(<<"list">> \o Groups, {"groupOfNames"}, {}, {}, {<<"ann">> \o People})}
Elsewhere == {Ou("ou=people"), Entry(Nested, {"organizationalUnit"}, {}, {}, {}),
              User("ann", People, 11, 11), User("eve", Nested, 16, 13)}

MCDirectories == {Ous, Ous \cup Pair("ann", 11) \cup Pair("bob", 12), Ous \cup Sharing,
                  Ous \cup Neighbours, Elsewhere, Ous \cup Elsewhere \cup {Group("ann", 11)}}

Block(name) == [name |-> name, enabled |-> TRUE, base |-> {}, classes |-> {}, parts |-> <<>>,
                suppress |-> {}]
At(block, base, classes) == [block EXCEPT !.base = {base}, !.classes = {classes}]

UserPeople == Block(<<"user", "people">>)
GroupsBlock == Block(<<"posixgroup", "groups">>)
Staff == At(Block(<<"staff">>), People, Account)
Svc   == At(Block(<<"svc">>), <<"ou=svc", "dc=x">>, Account)

MCConfigs == {
  <<>>,
  <<Staff, UserPeople>>,
  <<[Staff EXCEPT !.parts = ("widget.gidNumber" :> <<"posixgroup", "groups">>),
                  !.suppress = {"widget.gidNumber", "companion.memberUid"}]>>,
  <<[Svc EXCEPT !.suppress = {"companion"}], [GroupsBlock EXCEPT !.enabled = FALSE]>>,
  <<Svc, [GroupsBlock EXCEPT !.suppress = {"defaults.gidNumber"}]>>,
  <<[UserPeople EXCEPT !.parts = ("defaults.gidNumber" :> Literal(16))]>>,
  <<At([GroupsBlock EXCEPT !.name = <<"staff">>], Groups, PosixGroup)>>,
  <<[UserPeople EXCEPT !.suppress = {"defaults.gidNumber"}], Svc>>,
  <<[GroupsBlock EXCEPT !.parts = ("widget.memberUid" :> <<"user", "people", "x">>)]>>,
  <<[GroupsBlock EXCEPT !.parts = ("widget.memberUid" :> <<"user", "people", "people">>)]>>,
  <<[Svc EXCEPT !.parts = ("widget.gidNumber" :> <<"nobody">>)]>> }
=============================================================================
