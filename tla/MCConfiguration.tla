-------------------------- MODULE MCConfiguration --------------------------
(* Configurations: one that uses everything the generator reads, spread    *)
(* over several files, and others that differ from it in one place.        *)
EXTENDS Configuration

Kid(tag, attrs) == [tag |-> tag, attrs |-> attrs, kids |-> <<>>]
Parent(tag, attrs, kids) == [tag |-> tag, attrs |-> attrs, kids |-> kids]
Class(name, kids) == Parent("class", [name |-> name], kids)

Field(name, type) == Kid("field", [name |-> name, type |-> type])
Xyz == Parent("message", [name |-> "xyz_t"], <<Field("x", "double"), Field("y", "double")>>)
Mode(first) == Kid("enum", [name |-> "mode_t", fields |-> <<"OFF", "ON">>, first_index |-> first])
Track == Parent("struct", [name |-> "track_t"], <<Field("last", "xyz_t")>>)
Pose == Parent("struct", [name |-> "pose_t"], <<Field("pos", "xyz_t"), Include("angles")>>)
State == Parent("message", [name |-> "state_t"], <<Field("pose", "pose_t"), Field("mode", "mode_t")>>)
Debug == Parent("message", [name |-> "debug_t"], <<Field("pose", "state_t")>>)

Message(attrs) == Kid("message", attrs)
Rated == Parent("class", [name |-> "ap", flightrate |-> 20, simrate |-> 35],
                <<Message([name |-> "state", type |-> "state_t", simrate |-> 5])>>)
Other == Parent("class", [name |-> "ap", flightrate |-> 1, simrate |-> 2],
                <<Message([name |-> "debug", type |-> "debug_t", channel |-> "chan"]), Include("more_telemetry")>>)

Member(attrs) == Kid("member", attrs)
Setting(attrs, fields) ==
    Parent("struct", attrs @@ [name |-> "s", varname |-> "v", type |-> "state_t"], fields)

Deep == Member([name |-> <<"pose", "pos", "x">>, max |-> 9])
Symmetric == Member([name |-> <<"pose", "pos", "y">>, absmax |-> 4, default |-> -3])
Mixed == Member([name |-> <<"mode">>, default |-> "ON"])
Bounded(fields) == Setting([min |-> 1, max |-> 7, step |-> 1, default |-> 2], fields)

Files ==
    [types |-> <<Include("shared"), Class("ap", <<Pose, Include("more_types")>>),
                 Class("sim", <<Pose>>), Include("types_of_ap")>>,
     shared |-> <<Xyz, Mode(0), Track>>,
     angles |-> <<Field("psi", "double")>>,
     more_types |-> <<State>>,
     types_of_ap |-> <<Class("ap", <<Debug>>), Kid("comment", [text |-> "end"])>>,
     telemetry |-> <<Rated, Other, Message([name |-> "stray", type |-> "xyz_t"])>>,
     more_telemetry |-> <<Message([name |-> "xyz", type |-> "xyz_t"])>>,
     settings |-> <<Class("ap", <<Bounded(<<Deep, Symmetric, Mixed>>)>>), Include("settings_of_ap")>>,
     settings_of_ap |-> <<Class("ap", <<Setting([varname |-> "w", step |-> 1], <<Include("fields")>>)>>)>>,
     fields |-> <<Member([name |-> <<"mode">>, default |-> "OFF"])>>]

With(changes) == changes @@ Files
Without(file) == [f \in DOMAIN Files \ {file} |-> Files[f]]
Telemetry1(attrs) == With([telemetry |-> <<Parent("class", attrs,
                           <<Message([name |-> "state", type |-> "state_t"])>>)>>])
Settings1(c, setting) == With([settings |-> <<Class(c, <<setting>>)>>])

MCConfigurations ==
    {Files, With([shared |-> <<Xyz, Mode(1)>>]), With([settings |-> <<>>])}
    \union {Without(f) : f \in {"shared", "more_types", "angles", "telemetry", "fields"}}
    \union {With([more_types |-> <<Include("shared")>>]),
            With([more_telemetry |-> <<Kid("class", [name |-> "x"])>>]),
            With([types |-> <<Class("ap", <<Kid("typo", [name |-> "x"])>>)>>]),
            With([types |-> <<Class("ap", <<>>), Class("sim", <<Xyz>>)>>, settings |-> <<>>]),
            Telemetry1([name |-> "ap", sim |-> 35, flight |-> 20]),
            Telemetry1([name |-> "vis", simrate |-> 35, flightrate |-> 20]),
            Settings1("vis", Bounded(<<Deep>>)),
            Settings1("ap", Setting([type |-> "none_t"], <<>>)),
            Settings1("ap", Bounded(<<Member([name |-> <<"pose", "no">>])>>)),
            Settings1("ap", Bounded(<<Member([name |-> <<"pose", "pos", "x">>, default |-> 8])>>)),
            Settings1("ap", Setting([step |-> 1], <<Deep>>)),
            Settings1("ap", Bounded(<<Member([name |-> <<"mode">>, default |-> "AUTO"])>>))}
=============================================================================
