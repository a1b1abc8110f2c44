SPECIFICATION Spec
CONSTANTS
    Machines = {1, 2, 3}
    EtcdMachines = {1, 2, 3}
    FixedInitNodes = {NoMachine, 2}
    NoMachine = NoMachine
INVARIANT TypeOK
PROPERTIES LabelAddedAlone ElectionSettles FixedInitNodeSettles
