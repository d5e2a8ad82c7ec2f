------------------------------ MODULE I2cPorts ------------------------------
(***************************************************************************)
(* The life of the port objects of i2cs.nim: newI2CMaster or newI2CSlave     *)
(* installs a driver, and =destroy deletes the driver of the object's port.  *)
(* The destructor runs as well when the constructor raises, and then the     *)
(* object's port is still 0.                                                 *)
(***************************************************************************)
EXTENDS Integers

CONSTANTS
    Vars,           \* variables of the application that hold a port object
    Ports,          \* i2c_port_t
    InitMayFail     \* can i2c_param_config or i2c_driver_install fail?

ASSUME PortsAssumption == 0 \in Ports /\ Ports \subseteq Nat

NoObject == -1          \* no port has this number

VARIABLES
    object,         \* object[v]: the port of the object v refers to, or NoObject
    installed,      \* ports whose driver is installed
    initFailed,     \* history: has a constructor raised?
    destroyFailed   \* history: has a destructor raised?

i2cVars == <<object, installed, initFailed, destroyFailed>>

I2cInit ==
    /\ object = [v \in Vars |-> NoObject]
    /\ installed = {}
    /\ initFailed = FALSE
    /\ destroyFailed = FALSE

-----------------------------------------------------------------------------

\* i2c_driver_delete: an error when there is no driver, which the destructor raises.
DeleteDriver(port, drivers) ==
    /\ installed' = drivers \ {port}
    /\ destroyFailed' = (destroyFailed \/ port \notin drivers)

\* Mutation of NewPort: the old object of the variable is not destroyed.
NewPortKeepsOld(v, port) ==
    /\ port \notin installed
    /\ object' = [object EXCEPT ![v] = port]
    /\ installed' = installed \union {port}
    /\ UNCHANGED <<initFailed, destroyFailed>>

\* The driver is installed before the variable's old object is destroyed.
NewPort(v, port) ==
    /\ port \notin installed
    /\ object' = [object EXCEPT ![v] = port]
    /\ IF object[v] = NoObject
       THEN installed' = installed \union {port} /\ UNCHANGED destroyFailed
       ELSE DeleteDriver(object[v], installed \union {port})
    /\ UNCHANGED initFailed

\* Mutation of NewPortFails: the port is stored before the driver is installed, and the
\* error of i2c_driver_install is not looked at.
NewPortUnchecked(v, port) ==
    /\ port \in installed \/ InitMayFail
    /\ object' = [object EXCEPT ![v] = port]
    /\ UNCHANGED <<installed, initFailed, destroyFailed>>

\* The port is taken, or the driver refuses: initI2CDriver raises, and the new object is
\* destroyed with port 0.
NewPortFails(v, port) ==
    /\ port \in installed \/ InitMayFail
    /\ initFailed' = TRUE
    /\ DeleteDriver(0, installed)
    /\ UNCHANGED object

DropPort(v) ==
    /\ object[v] # NoObject
    /\ object' = [object EXCEPT ![v] = NoObject]
    /\ DeleteDriver(object[v], installed)
    /\ UNCHANGED initFailed

-----------------------------------------------------------------------------

I2cNext ==
    \E v \in Vars :
        \/ \E port \in Ports : NewPort(v, port) \/ NewPortFails(v, port)
        \/ DropPort(v)

-----------------------------------------------------------------------------

I2cTypeOK ==
    /\ object \in [Vars -> Ports \union {NoObject}]
    /\ installed \subseteq Ports
    /\ initFailed \in BOOLEAN /\ destroyFailed \in BOOLEAN

\* In no order of constructors, failures and destructors is a driver left installed that
\* no object will delete: its port can always be had again.  And until a constructor
\* raises, an object has its driver and shares it with nobody, so commands reach the bus
\* and no destructor raises.  Afterwards nothing of that holds: the object that could not
\* be made deletes the driver of port 0 under its owner.
DriversHaveOwners ==
    /\ \A port \in installed : \E v \in Vars : object[v] = port
    /\ ~ initFailed =>
        /\ \A v \in Vars : object[v] # NoObject => object[v] \in installed
        /\ \A v, w \in Vars : v # w /\ object[v] = object[w] => object[v] = NoObject
        /\ ~ destroyFailed
=============================================================================
